---- MODULE Spec2Model ----
(***************************************************************************)
(* A model of the basis-rs C++ Parquet layer: the chunked ColumnAccessor   *)
(* and its iterator, the ParquetCodec field registry, the ParquetWriter    *)
(* life cycle and the ParquetQuery builder, as they drive the storage      *)
(* engine behind the ffi:: calls.                                          *)
(***************************************************************************)
EXTENDS Integers, Sequences, FiniteSets, TLC

\* ------------------------------------------------------------------------
\* Bounds of the model
\* ------------------------------------------------------------------------
MaxChunks == 2
MaxChunkLen == 2
MaxBuffer == 2      \* records buffered at a time
MaxFailures == 1    \* engine calls that fail
MaxTerms == 3       \* selected names plus predicates one query accumulates

\* Element values a column can hold (two, so that order and identity show).
Values == {7, 9}

VARIABLES
  \* ColumnAccessor<T> (detail/column_accessor.hpp)
  chunks_,          \* std::vector<ColumnChunkView<T>>: each view as its elements
  chunk_offsets_,   \* prefix sums
  total_size_,
  col_phase,        \* "building" while GetColumn is adding chunks, then "ready"
  \* one range-for loop over the accessor
  loop_pc,          \* "idle" | "running" | "done"
  it_,              \* the loop's ColumnIterator: [chunk_idx, elem_idx]
  visited,          \* the values the loop body has seen so far
  \* the last col.at(i) call (cleared when a loop starts; a loop's record is
  \* cleared when at is called: one observation of the accessor at a time)
  at_idx,
  at_result,
  \* ColumnIterator objects obtained from begin(), by name: whether it exists,
  \* its position, how often it was incremented, the values read through it
  its,
  \* ParquetCodec<RecordType> (detail/codec.hpp): column_names_,
  \* column_offsets_, df_readers_, column_readers_, column_writers_
  codec,
  th,               \* the threads that use the codec: where each one is in its call
  find_last,        \* the last FindColumnName call made on the codec under registration
  \* ParquetWriter<RecordType> objects (parquet.hpp), by object
  w_state,          \* "unborn" | "alive" | "dead" (destroyed)
  buffer_,
  finalized_,
  finished,         \* a Finish() call on the object has returned normally
  discarded,        \* Discard() has been called on the object
  \* the storage engine behind ffi::
  calls,            \* the ffi calls of the last operation that issued any
  ncalls,           \* how many ffi calls each object has issued in all
  file,             \* what is stored at the path
  written,          \* the records the Finish() that stored it was given
  failures,         \* engine calls that have failed so far
  \* DataFrame (parquet.hpp) and the last ReadAllAs on it
  df_,
  read_result,
  df_last,          \* the last DataFrame constructor or GetColumn call
  \* one ParquetQuery<RecordType> (detail/query.hpp)
  select_names_,
  filter_entries_,
  q_last,           \* the last Select/Filter call: what it was, how it ended
  q_calls,          \* the ffi calls the last Collect() issued
  q_result          \* what the last Collect() returned

accVars == <<chunks_, chunk_offsets_, total_size_, col_phase>>
loopVars == <<loop_pc, it_, visited>>
atVars == <<at_idx, at_result>>
columnVars == <<accVars, loopVars, atVars, its>>
writerVars == <<w_state, buffer_, finalized_, finished, discarded>>
engineVars == <<calls, ncalls, file, written, failures>>
dfVars == <<df_, read_result, df_last>>
queryVars == <<select_names_, filter_entries_, q_last, q_calls, q_result>>
readVars == <<dfVars, queryVars>>
codecVars == <<codec, th, find_last>>
vars == <<columnVars, codecVars, writerVars, engineVars, dfVars, queryVars>>
outsideColumn == <<codecVars, writerVars, engineVars, dfVars, queryVars>>

\* ------------------------------------------------------------------------
\* Helpers on sequences
\* ------------------------------------------------------------------------
SeqsUpTo(S, n) == UNION {[1..k -> S] : k \in 0..n}

RECURSIVE Flatten(_)
Flatten(ss) == IF ss = <<>> THEN <<>> ELSE Head(ss) \o Flatten(Tail(ss))

\* Results of element accesses: a value, an exception, or undefined behaviour.
Ok(v) == [status |-> "ok", val |-> v]
OutOfRange == [status |-> "out_of_range", val |-> 0]
Undefined == [status |-> "undefined", val |-> 0]
NoResult == [status |-> "none", val |-> 0]

\* Result of DataFrame::ReadAllAs: nothing read yet, records, or an exception.
NoRead == [status |-> "none", records |-> <<>>]

\* ------------------------------------------------------------------------
\* ColumnChunkView / ColumnIterator
\* ------------------------------------------------------------------------
\* ColumnIterator::SkipEmptyChunks: advance chunk_idx over zero-length chunks.
RECURSIVE SkipEmptyChunks(_, _)
SkipEmptyChunks(chs, ci) ==
  IF ci < Len(chs) /\ Len(chs[ci + 1]) = 0
  THEN SkipEmptyChunks(chs, ci + 1)
  ELSE ci

\* A constructor that does not skip the empty chunks it starts on.
ColumnIteratorNoSkip(chs, ci, ei) == [chunk_idx |-> ci, elem_idx |-> ei]

\* ColumnIterator(chunks, chunk_idx, elem_idx)
ColumnIterator(chs, ci, ei) ==
  [chunk_idx |-> SkipEmptyChunks(chs, ci), elem_idx |-> ei]

\* Whether the iterator addresses an element that exists.
Dereferenceable(chs, it) ==
  /\ it.chunk_idx < Len(chs)
  /\ it.elem_idx < Len(chs[it.chunk_idx + 1])

\* ColumnIterator::operator*
Deref(chs, it) ==
  IF Dereferenceable(chs, it)
  THEN Ok(chs[it.chunk_idx + 1][it.elem_idx + 1])
  ELSE Undefined

\* operator++ that moves to the next chunk one element too late.
IterIncLate(chs, it) ==
  IF it.elem_idx + 1 > Len(chs[it.chunk_idx + 1])
  THEN [chunk_idx |-> SkipEmptyChunks(chs, it.chunk_idx + 1), elem_idx |-> 0]
  ELSE [chunk_idx |-> it.chunk_idx, elem_idx |-> it.elem_idx + 1]

\* ColumnIterator::operator++ (on an iterator whose chunk exists)
IterInc(chs, it) ==
  IF it.elem_idx + 1 >= Len(chs[it.chunk_idx + 1])
  THEN [chunk_idx |-> SkipEmptyChunks(chs, it.chunk_idx + 1), elem_idx |-> 0]
  ELSE [chunk_idx |-> it.chunk_idx, elem_idx |-> it.elem_idx + 1]

\* A default-constructed ColumnIterator (chunk_idx_ = 0, elem_idx_ = 0).
NoIterator == [chunk_idx |-> 0, elem_idx |-> 0]

\* An operator== that compares the element index only.
IterEqElemOnly(a, b) == a.elem_idx = b.elem_idx

\* ColumnIterator::operator==
IterEq(a, b) == a.chunk_idx = b.chunk_idx /\ a.elem_idx = b.elem_idx

\* ------------------------------------------------------------------------
\* ColumnAccessor as a value [chunks, offsets, total]
\* ------------------------------------------------------------------------
EmptyAccessor == [chunks |-> <<>>, offsets |-> <<>>, total |-> 0]

\* An AddChunk whose prefix-sum entry is the length of the chunk it adds.
AddChunkPushesLength(a, data) ==
  IF Len(data) > 0
  THEN [chunks |-> Append(a.chunks, data),
        offsets |-> Append(a.offsets, Len(data)),
        total |-> a.total + Len(data)]
  ELSE a

\* ColumnAccessor::AddChunk(data, size): data is the run of `size` elements.
AddChunk(a, data) ==
  IF Len(data) > 0
  THEN [chunks |-> Append(a.chunks, data),
        offsets |-> Append(a.offsets, a.total + Len(data)),
        total |-> a.total + Len(data)]
  ELSE a

\* A search for the first entry greater than or equal to idx (a lower bound).
UpperBoundAtLeast(offs, idx) ==
  IF \E k \in 1..Len(offs) : offs[k] >= idx
  THEN (CHOOSE k \in 1..Len(offs) :
          /\ offs[k] >= idx
          /\ \A j \in 1..(k - 1) : ~(offs[j] >= idx)) - 1
  ELSE Len(offs)

\* std::upper_bound over the prefix sums: 0-based position of the first entry
\* greater than idx, or the length when there is none.
UpperBound(offs, idx) ==
  IF \E k \in 1..Len(offs) : offs[k] > idx
  THEN (CHOOSE k \in 1..Len(offs) :
          /\ offs[k] > idx
          /\ \A j \in 1..(k - 1) : ~(offs[j] > idx)) - 1
  ELSE Len(offs)

\* ColumnAccessor::operator[](idx)
Subscript(a, idx) ==
  LET chunk_idx == UpperBound(a.offsets, idx)
      offset == IF chunk_idx = 0 THEN 0 ELSE a.offsets[chunk_idx]
  IN IF /\ chunk_idx < Len(a.chunks)
        /\ idx - offset >= 0
        /\ idx - offset < Len(a.chunks[chunk_idx + 1])
     THEN Ok(a.chunks[chunk_idx + 1][idx - offset + 1])
     ELSE Undefined

\* at() whose bounds check lets idx = size() through.
AtLooseBound(a, idx) ==
  IF idx > a.total THEN OutOfRange ELSE Subscript(a, idx)

\* ColumnAccessor::at(idx)
At(a, idx) ==
  IF idx >= a.total THEN OutOfRange ELSE Subscript(a, idx)

\* ColumnAccessor::begin / end
Begin(a) == ColumnIterator(a.chunks, 0, 0)
End(a) == ColumnIterator(a.chunks, Len(a.chunks), 0)

\* The accessor held in the state.
Col == [chunks |-> chunks_, offsets |-> chunk_offsets_, total |-> total_size_]

\* ------------------------------------------------------------------------
\* The record type and its codec (ParquetCodec<RecordType>)
\* ------------------------------------------------------------------------
\* struct Entry { int64_t id; std::string name; bool active; }
Fields == {"id", "name", "active"}
FieldType == [id |-> "i64", name |-> "str", active |-> "bool"]
\* byte offset of each member: the identity Add stores and FindColumnName seeks
OffsetOf == [id |-> 0, name |-> 8, active |-> 40]
\* RecordType{}: a value-initialised record
DefaultRecord == [id |-> 0, name |-> "", active |-> FALSE]

\* The records the callers write.
Records ==
  { [id |-> 1, name |-> "a", active |-> TRUE],
    [id |-> 2, name |-> "", active |-> FALSE] }

\* The life cycle of a writer does not depend on what the records hold: the
\* life-cycle specification writes one record value.
LifecycleRecords == {[id |-> 1, name |-> "a", active |-> TRUE]}

EmptyCodec ==
  [column_names_ |-> <<>>, column_offsets_ |-> <<>>, df_readers_ |-> <<>>,
   column_readers_ |-> <<>>, column_writers_ |-> <<>>]

\* The DataFrame reader Add generates for a member of type T: the string
\* reader, the bool reader (a stub that fetches the column as strings and
\* assigns nothing), or the zero-copy reader of a primitive type.
DfReaderFor(name, field) ==
  [kind |-> CASE FieldType[field] = "str" -> "string"
              [] FieldType[field] = "bool" -> "bool_stub"
              [] OTHER -> "primitive",
   name |-> name, field |-> field, type |-> FieldType[field]]

\* ParquetCodec::Add(name, accessor)
Add(c, name, field) ==
  [column_names_ |-> Append(c.column_names_, name),
   column_offsets_ |-> Append(c.column_offsets_, OffsetOf[field]),
   df_readers_ |-> Append(c.df_readers_, DfReaderFor(name, field)),
   column_readers_ |-> Append(c.column_readers_,
       [name |-> name, field |-> field, type |-> FieldType[field]]),
   column_writers_ |-> Append(c.column_writers_,
       [name |-> name, field |-> field, type |-> FieldType[field]])]

\* GetParquetCodec<Entry>(): the registration the tests make, one Add per member
Registration ==
  << [name |-> "col_id", field |-> "id"],
     [name |-> "col_name", field |-> "name"],
     [name |-> "col_active", field |-> "active"] >>

RECURSIVE Register(_, _)
Register(c, regs) ==
  IF regs = <<>> THEN c
  ELSE Register(Add(c, Head(regs).name, Head(regs).field), Tail(regs))

GetParquetCodec == Register(EmptyCodec, Registration)

\* column writer i of the codec: the column it hands to ParquetCellCodec::Write
ColumnWritten(wr, records) ==
  [name |-> wr.name, type |-> wr.type,
   values |-> [i \in 1..Len(records) |-> records[i][wr.field]]]

\* ParquetCodec::WriteAll: the columns emitted, in column_writers_ order
WriteAll(c, records) ==
  [i \in 1..Len(c.column_writers_) |->
     ColumnWritten(c.column_writers_[i], records)]

\* ------------------------------------------------------------------------
\* The storage engine (ffi::), writer side
\* ------------------------------------------------------------------------
NoFile == [exists |-> FALSE, cols |-> <<>>]
StoredTable(cols) == [exists |-> TRUE, cols |-> cols]

CWriterNew(w, ok) == [op |-> "writer_new", obj |-> w, ok |-> ok]
CAddColumn(w, col, ok) ==
  [op |-> "writer_add_column", obj |-> w, ok |-> ok, column |-> col]
CWriterFinish(w, ok) == [op |-> "writer_finish", obj |-> w, ok |-> ok]

\* A Finish() that finalizes the engine writer before it adds the columns.
WriterCallsFinishEarly(w, c, records) ==
  <<CWriterNew(w, TRUE), CWriterFinish(w, TRUE)>>
  \o [i \in 1..Len(c.column_writers_) |-> CAddColumn(w, WriteAll(c, records)[i], TRUE)]

\* The ffi calls one Finish() of a non-empty buffer makes when nothing fails.
WriterCalls(w, c, records) ==
  <<CWriterNew(w, TRUE)>>
  \o [i \in 1..Len(c.column_writers_) |-> CAddColumn(w, WriteAll(c, records)[i], TRUE)]
  \o <<CWriterFinish(w, TRUE)>>

\* The calls made when only the first n succeed: the next one fails (throws).
CallsUntilFailure(planned, n) ==
  IF n >= Len(planned) THEN planned
  ELSE SubSeq(planned, 1, n) \o <<[planned[n + 1] EXCEPT !.ok = FALSE]>>

\* ------------------------------------------------------------------------
\* ParquetWriter<RecordType>
\* ------------------------------------------------------------------------
W == {"A", "B"}

\* Records buffered in all writers together (MaxBuffer bounds it).
Buffered == Len(buffer_["A"]) + Len(buffer_["B"])

\* What a writer call does when all n of the engine's calls it needs succeed.
Flushed(w, c, buf) ==
  [finalized |-> TRUE, issued |-> WriterCalls(w, c, buf), records |-> buf,
   stored |-> <<WriteAll(c, buf)>>, threw |-> FALSE]

\* A Finish() that opens the engine writer for an empty buffer too.
FinishFlushesEmpty(w, c, buf, fin, n) ==
  IF fin
  THEN [finalized |-> TRUE, issued |-> <<>>, records |-> buf,
        stored |-> <<>>, threw |-> FALSE]
  ELSE Flushed(w, c, buf)

\* A Finish() that does not look at finalized_.
FinishIgnoresFlag(w, c, buf, fin, n) ==
  IF buf = <<>>
  THEN [finalized |-> TRUE, issued |-> <<>>, records |-> buf,
        stored |-> <<>>, threw |-> FALSE]
  ELSE Flushed(w, c, buf)

\* A Discard() that clears the buffer and leaves finalized_ as it was.
DiscardLeavesFlag(buf, fin) == [buffer |-> <<>>, finalized |-> fin]

\* ParquetWriter::Finish() on a writer with this buffer and flag, when the
\* engine lets the first n of its calls succeed: the flag afterwards, the ffi
\* calls issued, the table stored (if writer_finish succeeded), and whether
\* Finish threw.
Finish(w, c, buf, fin, n) ==
  IF fin
  THEN [finalized |-> TRUE, issued |-> <<>>, records |-> buf,
        stored |-> <<>>, threw |-> FALSE]
  ELSE IF buf = <<>>
  THEN [finalized |-> TRUE, issued |-> <<>>, records |-> buf,
        stored |-> <<>>, threw |-> FALSE]
  ELSE LET planned == WriterCalls(w, c, buf)
       IN IF n >= Len(planned)
          THEN [finalized |-> TRUE, issued |-> planned, records |-> buf,
                stored |-> <<WriteAll(c, buf)>>, threw |-> FALSE]
          ELSE [finalized |-> FALSE, issued |-> CallsUntilFailure(planned, n),
                records |-> buf, stored |-> <<>>, threw |-> TRUE]

\* ParquetWriter::Discard(): the buffer and flag afterwards
Discard(buf, fin) == [buffer |-> <<>>, finalized |-> TRUE]

\* How many engine calls a Finish() of this codec needs.
NumWriterCalls(c) == Len(c.column_writers_) + 2

\* The outcomes the engine may give one Finish(): all calls succeed, or (while
\* failures are left to inject) the call after the first n fails.
Outcomes(c) ==
  {NumWriterCalls(c)} \cup
  (IF failures < MaxFailures THEN 0..(NumWriterCalls(c) - 1) ELSE {})

\* what a Finish() with this effect does to the engine
EngineAfter(w, eff) ==
  /\ calls' = IF eff.issued = <<>> THEN calls ELSE eff.issued
  /\ ncalls' = [ncalls EXCEPT ![w] = @ + Len(eff.issued)]
  /\ file' = IF eff.stored = <<>> THEN file ELSE StoredTable(eff.stored[1])
  /\ written' = IF eff.stored = <<>> THEN written ELSE eff.records
  /\ failures' = IF eff.threw THEN failures + 1 ELSE failures

\* writer.WriteRecord(record)
WriteRecord(w, r) ==
  /\ w_state[w] = "alive"
  /\ Buffered < MaxBuffer
  /\ buffer_' = [buffer_ EXCEPT ![w] = Append(@, r)]
  /\ UNCHANGED <<w_state, finalized_, finished, discarded>>
  /\ UNCHANGED <<columnVars, codecVars, engineVars, readVars>>

\* writer.WriteRecords(records)
WriteRecords(w, rs) ==
  /\ w_state[w] = "alive"
  /\ Buffered + Len(rs) <= MaxBuffer
  /\ buffer_' = [buffer_ EXCEPT ![w] = @ \o rs]
  /\ UNCHANGED <<w_state, finalized_, finished, discarded>>
  /\ UNCHANGED <<columnVars, codecVars, engineVars, readVars>>

\* writer.Finish()
DoFinish(w, n) ==
  /\ w_state[w] = "alive"
  /\ LET eff == Finish(w, codec, buffer_[w], finalized_[w], n)
     IN /\ finalized_' = [finalized_ EXCEPT ![w] = eff.finalized]
        /\ finished' = [finished EXCEPT ![w] = @ \/ ~eff.threw]
        /\ EngineAfter(w, eff)
  /\ UNCHANGED <<w_state, buffer_, discarded>>
  /\ UNCHANGED <<columnVars, codecVars, readVars>>

\* writer.Discard()
DoDiscard(w) ==
  /\ w_state[w] = "alive"
  /\ LET eff == Discard(buffer_[w], finalized_[w])
     IN /\ buffer_' = [buffer_ EXCEPT ![w] = eff.buffer]
        /\ finalized_' = [finalized_ EXCEPT ![w] = eff.finalized]
  /\ discarded' = [discarded EXCEPT ![w] = TRUE]
  /\ UNCHANGED <<w_state, finished>>
  /\ UNCHANGED <<columnVars, codecVars, engineVars, readVars>>

\* A destructor that calls Finish() outside a try block: what Finish throws
\* leaves the destructor.
DestructorNoCatch(w, c, buf, fin, n) ==
  IF ~fin /\ buf # <<>>
  THEN LET eff == Finish(w, c, buf, fin, n)
       IN [finalized |-> eff.finalized, issued |-> eff.issued,
           records |-> eff.records, stored |-> eff.stored,
           threw |-> eff.threw, escaped |-> eff.threw]
  ELSE [finalized |-> fin, issued |-> <<>>, records |-> buf,
        stored |-> <<>>, threw |-> FALSE, escaped |-> FALSE]

\* ~ParquetWriter() when the engine lets the first n calls succeed: Finish()
\* in a try block when the writer is open and non-empty; escaped says whether
\* an exception leaves the destructor.
Destructor(w, c, buf, fin, n) ==
  IF ~fin /\ buf # <<>>
  THEN LET eff == Finish(w, c, buf, fin, n)
       IN [finalized |-> eff.finalized, issued |-> eff.issued,
           records |-> eff.records, stored |-> eff.stored,
           threw |-> eff.threw, escaped |-> FALSE]
  ELSE [finalized |-> fin, issued |-> <<>>, records |-> buf,
        stored |-> <<>>, threw |-> FALSE, escaped |-> FALSE]

\* the writer goes out of scope; an exception leaving the destructor ends the
\* program (std::terminate)
Destroy(w, n) ==
  /\ w_state[w] = "alive"
  /\ LET eff == Destructor(w, codec, buffer_[w], finalized_[w], n)
     IN /\ w_state' = [w_state EXCEPT
                         ![w] = IF eff.escaped THEN "terminated" ELSE "dead"]
        /\ finalized_' = [finalized_ EXCEPT ![w] = eff.finalized]
        /\ EngineAfter(w, eff)
  /\ UNCHANGED <<buffer_, finished, discarded>>
  /\ UNCHANGED <<columnVars, codecVars, readVars>>

\* A move constructor that copies the buffer and leaves the source's flag.
MoveConstructKeepsSource(from, to) ==
  /\ w_state[from] = "alive"
  /\ w_state[to] = "unborn"
  /\ w_state' = [w_state EXCEPT ![to] = "alive"]
  /\ buffer_' = [buffer_ EXCEPT ![to] = buffer_[from]]
  /\ finalized_' = [finalized_ EXCEPT ![to] = finalized_[from]]
  /\ UNCHANGED <<finished, discarded>>
  /\ UNCHANGED <<columnVars, codecVars, engineVars, readVars>>

\* ParquetWriter B(std::move(A)): B takes the path, the buffer and the flag;
\* A is left with an empty buffer and marked finalized.
MoveConstruct(from, to) ==
  /\ w_state[from] = "alive"
  /\ w_state[to] = "unborn"
  /\ w_state' = [w_state EXCEPT ![to] = "alive"]
  /\ buffer_' = [buffer_ EXCEPT ![to] = buffer_[from], ![from] = <<>>]
  /\ finalized_' = [finalized_ EXCEPT ![to] = finalized_[from], ![from] = TRUE]
  /\ UNCHANGED <<finished, discarded>>
  /\ UNCHANGED <<columnVars, codecVars, engineVars, readVars>>

\* ------------------------------------------------------------------------
\* The storage engine (ffi::), reader side, and DataFrame
\* ------------------------------------------------------------------------
EngineError == [status |-> "engine_error", records |-> <<>>]

\* parquet_df_num_rows
NumRows(table) == IF table = <<>> THEN 0 ELSE Len(table[1].values)

HasColumn(table, name) == \E k \in 1..Len(table) : table[k].name = name
ColumnNamed(table, name) ==
  table[CHOOSE k \in 1..Len(table) : table[k].name = name]

Min(a, b) == IF a <= b THEN a ELSE b

\* parquet_df_get_<T>_chunks: the column's values as the engine's chunks; the
\* engine decides the layout (here: cut once, at `split`, either part may be
\* empty). <<>> stands for the engine's error (no such column, other type).
EngineChunks(table, name, type, split) ==
  IF HasColumn(table, name) /\ ColumnNamed(table, name).type = type
  THEN LET v == ColumnNamed(table, name).values
           k == Min(split, Len(v))
       IN <<TRUE, <<SubSeq(v, 1, k), SubSeq(v, k + 1, Len(v))>> >>
  ELSE <<FALSE, <<>> >>

\* parquet_df_get_string_column: the strings of a string column. On a column
\* of another type the engine either fails or (lenient) hands back one string
\* per row.
EngineStrings(table, name, lenient) ==
  IF ~HasColumn(table, name) THEN <<FALSE, <<>> >>
  ELSE IF ColumnNamed(table, name).type = "str"
  THEN <<TRUE, ColumnNamed(table, name).values>>
  ELSE IF lenient
  THEN <<TRUE, [i \in 1..NumRows(table) |-> "?"]>>
  ELSE <<FALSE, <<>> >>

\* DataFrame::GetColumn<T>(name): AddChunk for every chunk the engine returns
RECURSIVE AddChunks(_, _)
AddChunks(a, chs) ==
  IF chs = <<>> THEN a ELSE AddChunks(AddChunk(a, Head(chs)), Tail(chs))

GetColumn(chs) == AddChunks(EmptyAccessor, chs)

\* for (const T& value : col): the values from `it` up to end()
RECURSIVE IterateFrom(_, _)
IterateFrom(a, it) ==
  IF IterEq(it, End(a)) THEN <<>>
  ELSE <<Deref(a.chunks, it).val>> \o IterateFrom(a, IterInc(a.chunks, it))

\* records[i].*accessor = values[i] for i < values.size() && i < records.size()
AssignColumn(records, field, values) ==
  [i \in 1..Len(records) |->
     IF i <= Len(values) THEN [records[i] EXCEPT ![field] = values[i]]
     ELSE records[i]]

\* One df reader run on the records: <<ok, records>>.
RunDfReader(rd, table, records, split, lenient) ==
  CASE rd.kind = "primitive" ->
         LET got == EngineChunks(table, rd.name, rd.type, split)
         IN IF got[1]
            THEN LET col == GetColumn(got[2])
                 IN <<TRUE, AssignColumn(records, rd.field,
                                         IterateFrom(col, Begin(col)))>>
            ELSE <<FALSE, records>>
    [] rd.kind = "string" ->
         LET got == EngineStrings(table, rd.name, lenient)
         IN IF got[1]
            THEN <<TRUE, AssignColumn(records, rd.field, got[2])>>
            ELSE <<FALSE, records>>
    [] rd.kind = "bool_stub" ->
         LET got == EngineStrings(table, rd.name, lenient)
         IN <<got[1], records>>

RECURSIVE RunDfReaders(_, _, _, _, _)
RunDfReaders(rds, table, records, split, lenient) ==
  IF rds = <<>> THEN [status |-> "ok", records |-> records]
  ELSE LET r == RunDfReader(Head(rds), table, records, split, lenient)
       IN IF r[1]
          THEN RunDfReaders(Tail(rds), table, r[2], split, lenient)
          ELSE EngineError

\* ParquetCodec::ReadAllFromDf(df)
ReadAllFromDf(c, table, split, lenient) ==
  RunDfReaders(c.df_readers_, table,
               [i \in 1..NumRows(table) |-> DefaultRecord], split, lenient)

NoDfCall ==
  [op |-> "none", status |-> "ok", name |-> "", type |-> "",
   col |-> EmptyAccessor]

\* A constructor that keeps the engine's error to itself and holds no table.
DataFrameOpenNoThrow(f) ==
  [status |-> "ok", df |-> <<IF f.exists THEN f.cols ELSE <<>> >>]

\* DataFrame(path): df_(ffi::parquet_open(path)); the engine fails when
\* nothing is stored at the path, the exception leaves the constructor and no
\* object exists (df <<>>)
DataFrameOpen(f) ==
  IF f.exists THEN [status |-> "ok", df |-> <<f.cols>>]
  ELSE [status |-> "engine_error", df |-> <<>>]

\* DataFrame df(path)
OpenDataFrame ==
  /\ df_ = <<>>
  /\ LET r == DataFrameOpen(file)
     IN /\ df_' = r.df
        /\ df_last' = [NoDfCall EXCEPT !.op = "open", !.status = r.status]
  /\ UNCHANGED read_result
  /\ UNCHANGED <<columnVars, codecVars, writerVars, engineVars, queryVars>>

\* df.ReadAllAs<Entry>()
ReadAllAs(split, lenient) ==
  /\ df_ # <<>>
  /\ read_result' = ReadAllFromDf(codec, df_[1], split, lenient)
  /\ UNCHANGED <<df_, df_last>>
  /\ UNCHANGED <<columnVars, codecVars, writerVars, engineVars, queryVars>>

\* ------------------------------------------------------------------------
\* ParquetCodec: lookup and the legacy readers
\* ------------------------------------------------------------------------
LookupError == [status |-> "lookup_error", val |-> ""]

MinOf(S) == CHOOSE x \in S : \A y \in S : x <= y

\* FindColumnName with a scan that falls back to the first column.
FindColumnNameOrFirst(c, field) ==
  LET hits == {i \in 1..Len(c.column_offsets_) :
                 c.column_offsets_[i] = OffsetOf[field]}
  IN Ok(c.column_names_[IF hits = {} THEN 1 ELSE MinOf(hits)])

\* ParquetCodec::FindColumnName(accessor): linear scan of column_offsets_
FindColumnName(c, field) ==
  LET hits == {i \in 1..Len(c.column_offsets_) :
                 c.column_offsets_[i] = OffsetOf[field]}
  IN IF hits = {} THEN LookupError ELSE Ok(c.column_names_[MinOf(hits)])

\* ------------------------------------------------------------------------
\* The codec under registration
\* ------------------------------------------------------------------------
MaxColumns == 3

\* column names a registration may use
ColumnNames == {"col_id", "col_name", "col_active"}

NoFind == [field |-> "", status |-> "none", val |-> ""]

\* AddLegacyReader(reader): column_readers_.push_back(reader)
AddLegacyReader(c, reader) ==
  [c EXCEPT !.column_readers_ = Append(@, reader)]

\* AddLegacyWriter(writer): column_writers_.push_back(writer)
AddLegacyWriter(c, writer) ==
  [c EXCEPT !.column_writers_ = Append(@, writer)]

\* how many registration calls (Add, AddLegacyReader, AddLegacyWriter) have
\* been made on the codec
RegistrationCalls ==
  Len(codec.column_readers_) + Len(codec.column_writers_)
    - Len(codec.column_names_)

\* c.Add(name, &Entry::field) inside the initializer of GetParquetCodec
DoAdd(name, field) ==
  /\ RegistrationCalls < MaxColumns
  /\ codec' = Add(codec, name, field)
  /\ find_last' = NoFind
  /\ UNCHANGED th
  /\ UNCHANGED <<columnVars, writerVars, engineVars, dfVars, queryVars>>

\* the reader or writer function of a column, as the tests would write it for
\* one of their bindings
LegacyFunction(reg) ==
  [name |-> reg.name, field |-> reg.field, type |-> FieldType[reg.field]]

\* c.AddLegacyReader(reader)
DoAddLegacyReader(reg) ==
  /\ RegistrationCalls < MaxColumns
  /\ codec' = AddLegacyReader(codec, LegacyFunction(reg))
  /\ UNCHANGED <<th, find_last>>
  /\ UNCHANGED <<columnVars, writerVars, engineVars, dfVars, queryVars>>

\* c.AddLegacyWriter(writer)
DoAddLegacyWriter(reg) ==
  /\ RegistrationCalls < MaxColumns
  /\ codec' = AddLegacyWriter(codec, LegacyFunction(reg))
  /\ UNCHANGED <<th, find_last>>
  /\ UNCHANGED <<columnVars, writerVars, engineVars, dfVars, queryVars>>

\* c.FindColumnName(&Entry::field)
DoFindColumnName(field) ==
  /\ LET r == FindColumnName(codec, field)
     IN find_last' = [field |-> field, status |-> r.status, val |-> r.val]
  /\ UNCHANGED <<codec, th>>
  /\ UNCHANGED <<columnVars, writerVars, engineVars, dfVars, queryVars>>

\* ------------------------------------------------------------------------
\* Threads sharing the codec GetParquetCodec returns
\* ------------------------------------------------------------------------
Threads == {"t1", "t2"}

\* the records every thread hands to WriteAll
ThreadRecords == <<[id |-> 7, name |-> "a", active |-> TRUE]>>

Idle ==
  [pc |-> "idle", op |-> "none", field |-> "", i |-> 0, out |-> <<>>,
   result |-> [status |-> "none", val |-> ""], mixed |-> FALSE]

\* the bindings at positions i and j of the codec exchanged, in all five lists
Exchange(c, i, j) ==
  LET sw(q) == [k \in 1..Len(q) |->
                  IF k = i THEN q[j] ELSE IF k = j THEN q[i] ELSE q[k]]
  IN [column_names_ |-> sw(c.column_names_),
      column_offsets_ |-> sw(c.column_offsets_),
      df_readers_ |-> sw(c.df_readers_),
      column_readers_ |-> sw(c.column_readers_),
      column_writers_ |-> sw(c.column_writers_)]

\* A lookup loop that moves the binding it finds to the front of the codec.
FindStepMoveToFront(c, s) ==
  IF s.i < Len(c.column_offsets_)
  THEN IF c.column_offsets_[s.i + 1] = OffsetOf[s.field]
       THEN [codec |-> Exchange(c, 1, s.i + 1),
             th |-> [s EXCEPT !.pc = "done",
                              !.result = Ok(c.column_names_[s.i + 1])]]
       ELSE [codec |-> c, th |-> [s EXCEPT !.i = s.i + 1]]
  ELSE [codec |-> c,
        th |-> [s EXCEPT !.pc = "done", !.result = LookupError]]

\* FindColumnName: one turn of the loop over column_offsets_, or the throw
\* after it
FindStep(c, s) ==
  IF s.i < Len(c.column_offsets_)
  THEN IF c.column_offsets_[s.i + 1] = OffsetOf[s.field]
       THEN [codec |-> c,
             th |-> [s EXCEPT !.pc = "done",
                              !.result = Ok(c.column_names_[s.i + 1])]]
       ELSE [codec |-> c, th |-> [s EXCEPT !.i = s.i + 1]]
  ELSE [codec |-> c,
        th |-> [s EXCEPT !.pc = "done", !.result = LookupError]]

\* WriteAll: one turn of the loop over column_writers_ (the writer is the
\* thread's own), or the return after it
WriteStep(c, s) ==
  IF s.i < Len(c.column_writers_)
  THEN [codec |-> c,
        th |-> [s EXCEPT !.i = s.i + 1,
                         !.out = Append(s.out,
                                   ColumnWritten(c.column_writers_[s.i + 1],
                                                 ThreadRecords))]]
  ELSE [codec |-> c, th |-> [s EXCEPT !.pc = "done", !.result = Ok("")]]

\* another thread is inside a call on the codec
OthersRunning(t) == \E u \in Threads \ {t} : th[u].pc = "running"

\* thread t calls GetParquetCodec<Entry>().FindColumnName(&Entry::field)
ThreadFind(t, field) ==
  /\ th[t].pc = "idle"
  /\ th' = [th EXCEPT ![t] = [Idle EXCEPT !.pc = "running", !.op = "find",
                                          !.field = field]]
  /\ UNCHANGED <<codec, find_last>>
  /\ UNCHANGED <<columnVars, writerVars, engineVars, dfVars, queryVars>>

\* thread t calls GetParquetCodec<Entry>().WriteAll(writer, records)
ThreadWrite(t) ==
  /\ th[t].pc = "idle"
  /\ th' = [th EXCEPT ![t] = [Idle EXCEPT !.pc = "running", !.op = "write"]]
  /\ UNCHANGED <<codec, find_last>>
  /\ UNCHANGED <<columnVars, writerVars, engineVars, dfVars, queryVars>>

\* thread t takes the next step of its call
ThreadStep(t) ==
  /\ th[t].pc = "running"
  /\ LET eff == IF th[t].op = "find" THEN FindStep(codec, th[t])
                ELSE WriteStep(codec, th[t])
     IN /\ codec' = eff.codec
        /\ th' = [th EXCEPT ![t] =
                    [eff.th EXCEPT !.mixed = th[t].mixed \/ OthersRunning(t)]]
  /\ UNCHANGED find_last
  /\ UNCHANGED <<columnVars, writerVars, engineVars, dfVars, queryVars>>

\* thread t has used what its call returned
ThreadReturn(t) ==
  /\ th[t].pc = "done"
  /\ th' = [th EXCEPT ![t] = Idle]
  /\ UNCHANGED <<codec, find_last>>
  /\ UNCHANGED <<columnVars, writerVars, engineVars, dfVars, queryVars>>

InitCodecUse ==
  /\ th = [t \in Threads |-> Idle]
  /\ find_last = NoFind

\* parquet_reader_get_<T>_column(reader, name): <<ok, values>>
ReaderColumn(table, name, type) ==
  IF HasColumn(table, name) /\ ColumnNamed(table, name).type = type
  THEN <<TRUE, ColumnNamed(table, name).values>>
  ELSE <<FALSE, <<>> >>

\* column_readers_[k](reader, records), one after the other; a reader whose
\* column fetch fails ends the read
RECURSIVE RunReaders(_, _, _)
RunReaders(rds, table, records) ==
  IF rds = <<>> THEN [status |-> "ok", records |-> records]
  ELSE LET got == ReaderColumn(table, Head(rds).name, Head(rds).type)
       IN IF got[1]
          THEN RunReaders(Tail(rds), table,
                          AssignColumn(records, Head(rds).field, got[2]))
          ELSE EngineError

\* ParquetCodec::ReadAll(reader)
ReadAll(c, table) ==
  RunReaders(c.column_readers_, table,
             [i \in 1..NumRows(table) |-> DefaultRecord])

\* A ReadSelected that runs the reader of the last index only.
ReadSelectedLast(c, table, column_indices) ==
  RunReaders([k \in 1..Min(1, Len(column_indices)) |->
                c.column_readers_[column_indices[Len(column_indices)] + 1]],
             table, [i \in 1..NumRows(table) |-> DefaultRecord])

\* ParquetCodec::ReadSelected(reader, column_indices); indices count from 0
ReadSelected(c, table, column_indices) ==
  RunReaders([k \in 1..Len(column_indices) |->
                c.column_readers_[column_indices[k] + 1]],
             table, [i \in 1..NumRows(table) |-> DefaultRecord])

\* ------------------------------------------------------------------------
\* ParquetQuery<RecordType>
\* ------------------------------------------------------------------------
Range(q) == {q[i] : i \in 1..Len(q)}

\* (select_names_.push_back(codec.FindColumnName(ptrs)), ...): left to right,
\* the first unregistered member ends the call with the earlier names pushed
RECURSIVE SelectPtrs(_, _, _)
SelectPtrs(c, names, ptrs) ==
  IF ptrs = <<>> THEN [names |-> names, status |-> "ok"]
  ELSE LET found == FindColumnName(c, Head(ptrs))
       IN IF found.status = "ok"
          THEN SelectPtrs(c, Append(names, found.val), Tail(ptrs))
          ELSE [names |-> names, status |-> "lookup_error"]

\* AddFilter(col_name, op, value): the entry pushed to filter_entries_
FilterEntry(col_name, op, type, value) ==
  [column |-> col_name, op |-> op, type |-> type, value |-> value]

\* Collect(): effective_columns
EffectiveColumns(c, sel) == IF sel = <<>> THEN c.column_names_ ELSE sel

\* Collect(): selected_indices, counting from 0; a selected name that is no
\* column of the codec gets no index
SelectedIndices(c, sel) ==
  IF sel = <<>> THEN [i \in 1..Len(c.column_names_) |-> i - 1]
  ELSE LET known == SelectSeq(sel, LAMBDA n : n \in Range(c.column_names_))
       IN [k \in 1..Len(known) |->
             MinOf({i \in 1..Len(c.column_names_) :
                      c.column_names_[i] = known[k]}) - 1]

\* A scan projection that appends every predicate's column.
ScanColumnsAppendAll(effective, filters) ==
  effective \o [k \in 1..Len(filters) |-> filters[k].column]

\* Collect(): scan_columns
RECURSIVE ScanColumns(_, _)
ScanColumns(effective, filters) ==
  IF filters = <<>> THEN effective
  ELSE ScanColumns(IF Head(filters).column \in Range(effective)
                   THEN effective
                   ELSE Append(effective, Head(filters).column),
                   Tail(filters))

\* the ffi calls of one engine query object: new, projection, every
\* predicate in order, then the collecting call
CQueryNew(obj) == [op |-> "query_new", obj |-> obj, ok |-> TRUE]
CQuerySelect(obj, cols) ==
  [op |-> "query_select", obj |-> obj, ok |-> TRUE, columns |-> cols]
CQueryFilter(obj, f) ==
  [op |-> "query_filter", obj |-> obj, ok |-> TRUE, filter |-> f]
CQueryCollect(obj, how) == [op |-> how, obj |-> obj, ok |-> TRUE]

\* A pass that pushes the projection and no predicate.
QueryPassNoFilters(obj, scan, filters, how) ==
  <<CQueryNew(obj), CQuerySelect(obj, scan), CQueryCollect(obj, how)>>

QueryPass(obj, scan, filters, how) ==
  <<CQueryNew(obj), CQuerySelect(obj, scan)>>
    \o [k \in 1..Len(filters) |-> CQueryFilter(obj, filters[k])]
    \o <<CQueryCollect(obj, how)>>

\* parquet_reader_num_rows, then one column fetch per reader run
ReadCalls(rds) ==
  <<[op |-> "reader_num_rows", obj |-> "legacy_reader", ok |-> TRUE]>>
    \o [k \in 1..Len(rds) |->
          [op |-> "reader_get_column", obj |-> "legacy_reader", ok |-> TRUE,
           column |-> rds[k].name]]

\* ------------------------------------------------------------------------
\* The storage engine (ffi::), query side
\* ------------------------------------------------------------------------
FilterOps == {"Eq", "Ne", "Lt", "Le", "Gt", "Ge"}

Satisfies(v, op, x) ==
  CASE op = "Eq" -> v = x
    [] op = "Ne" -> v # x
    [] op = "Lt" -> v < x
    [] op = "Le" -> v <= x
    [] op = "Gt" -> v > x
    [] op = "Ge" -> v >= x

\* what one engine query object was told: the projection of its query_select
\* call and the predicates of its query_filter calls, in call order
PushedColumns(pass) ==
  LET sel == SelectSeq(pass, LAMBDA c : c.op = "query_select")
  IN sel[Len(sel)].columns
PushedFilters(pass) ==
  LET fs == SelectSeq(pass, LAMBDA c : c.op = "query_filter")
  IN [k \in 1..Len(fs) |-> fs[k].filter]

NoDuplicates(q) == \A i, j \in 1..Len(q) : q[i] = q[j] => i = j

\* The engine accepts the query when the file is there, every projected column
\* is in it, every predicate's column is in the projection with the
\* predicate's type, and (unless it tolerates them) no column is projected
\* twice.
QueryAccepted(f, scan, filters, dupOk) ==
  /\ f.exists
  /\ \A n \in Range(scan) : HasColumn(f.cols, n)
  /\ \A k \in 1..Len(filters) :
       /\ filters[k].column \in Range(scan)
       /\ HasColumn(f.cols, filters[k].column)
       /\ ColumnNamed(f.cols, filters[k].column).type = filters[k].type
  /\ dupOk \/ NoDuplicates(scan)

\* query_collect / query_collect_df on an accepted query: the rows that
\* satisfy every predicate, in row order, in the projected columns
QueryTable(table, scan, filters) ==
  LET kept == SelectSeq([i \in 1..NumRows(table) |-> i],
                LAMBDA i : \A k \in 1..Len(filters) :
                   Satisfies(ColumnNamed(table, filters[k].column).values[i],
                             filters[k].op, filters[k].value))
      first == SelectSeq([j \in 1..Len(scan) |-> j],
                LAMBDA j : \A h \in 1..(j - 1) : scan[h] # scan[j])
  IN [j \in 1..Len(first) |->
        [name |-> scan[first[j]],
         type |-> ColumnNamed(table, scan[first[j]]).type,
         values |-> [k \in 1..Len(kept) |->
                       ColumnNamed(table, scan[first[j]]).values[kept[k]]]]]

\* ------------------------------------------------------------------------
\* ParquetQuery::Collect()
\* ------------------------------------------------------------------------
\* the readers Collect() runs on the second pass's reader
ReadersRun(c, sel) ==
  IF sel = <<>> THEN c.column_readers_
  ELSE LET idx == SelectedIndices(c, sel)
       IN [k \in 1..Len(idx) |-> c.column_readers_[idx[k] + 1]]

\* A Collect() whose second pass projects the selected columns only.
CollectCallsSecondPassSelected(c, sel, filters) ==
  LET scan == ScanColumns(EffectiveColumns(c, sel), filters)
  IN QueryPass("query", scan, filters, "query_collect_df")
       \o <<[op |-> "df_num_rows", obj |-> "df_box", ok |-> TRUE]>>
       \o QueryPass("reader", EffectiveColumns(c, sel), filters,
                    "query_collect")
       \o ReadCalls(ReadersRun(c, sel))

\* the ffi calls of a Collect() in which every call succeeds
CollectCalls(c, sel, filters) ==
  LET scan == ScanColumns(EffectiveColumns(c, sel), filters)
  IN QueryPass("query", scan, filters, "query_collect_df")
       \o <<[op |-> "df_num_rows", obj |-> "df_box", ok |-> TRUE]>>
       \o QueryPass("reader", scan, filters, "query_collect")
       \o ReadCalls(ReadersRun(c, sel))

\* position in the calls of the first call whose op is `how`
PositionOf(planned, how) ==
  MinOf({k \in 1..Len(planned) : planned[k].op = how})

\* Collect() on this query against file f, when the engine lets at most the
\* first n calls succeed: the calls issued and what Collect returns (or that
\* it threw an engine error).
Collect(c, f, sel, filters, n, dupOk) ==
  LET planned == CollectCalls(c, sel, filters)
      pass1 == SelectSeq(planned, LAMBDA x : x.obj = "query")
      pass2 == SelectSeq(planned, LAMBDA x : x.obj = "reader")
      accepted1 == QueryAccepted(f, PushedColumns(pass1), PushedFilters(pass1),
                                 dupOk)
      accepted == QueryAccepted(f, PushedColumns(pass2), PushedFilters(pass2),
                                dupOk)
      reader == IF accepted
                THEN QueryTable(f.cols, PushedColumns(pass2),
                                PushedFilters(pass2))
                ELSE <<>>
      records == IF sel = <<>> THEN ReadAll(c, reader)
                 ELSE ReadSelected(c, reader, SelectedIndices(c, sel))
      rds == ReadersRun(c, sel)
      bad == {k \in 1..Len(rds) :
                ~ReaderColumn(reader, rds[k].name, rds[k].type)[1]}
      limit == IF ~accepted1
               THEN Min(n, PositionOf(planned, "query_collect_df") - 1)
               ELSE IF ~accepted
               THEN Min(n, PositionOf(planned, "query_collect") - 1)
               ELSE IF bad # {}
               THEN Min(n, PositionOf(planned, "reader_num_rows")
                             + MinOf(bad) - 1)
               ELSE n
  IN IF limit >= Len(planned)
     THEN [issued |-> planned, result |-> records]
     ELSE [issued |-> CallsUntilFailure(planned, limit),
           result |-> EngineError]

\* ------------------------------------------------------------------------
\* DataFrameBuilder::Collect()
\* ------------------------------------------------------------------------
\* the ffi calls of a DataFrameBuilder::Collect() with these select_names_
\* and filter_entries_, when every call succeeds
BuilderCalls(sel, filters) ==
  IF filters = <<>>
  THEN IF sel = <<>>
       THEN <<[op |-> "open", obj |-> "df", ok |-> TRUE]>>
       ELSE <<[op |-> "open_projected", obj |-> "df", ok |-> TRUE,
               columns |-> sel]>>
  ELSE <<CQueryNew("df_query")>>
         \o (IF sel # <<>>
             THEN <<CQuerySelect("df_query", ScanColumns(sel, filters))>>
             ELSE <<>>)
         \o [k \in 1..Len(filters) |-> CQueryFilter("df_query", filters[k])]
         \o <<CQueryCollect("df_query", "query_collect_df")>>

\* the names of the columns stored in the file, in order
StoredNames(f) == [j \in 1..Len(f.cols) |-> f.cols[j].name]

\* DataFrameBuilder::Collect() against file f when the engine lets at most
\* the first n calls succeed: the calls issued and the table of the DataFrame
\* returned (none when it threw).
BuilderCollect(f, sel, filters, n, dupOk) ==
  LET planned == BuilderCalls(sel, filters)
      projected == SelectSeq(planned, LAMBDA x :
                      x.op \in {"open_projected", "query_select"})
      scan == IF projected = <<>> THEN StoredNames(f)
              ELSE projected[1].columns
      pushed == PushedFilters(planned)
      accepted == QueryAccepted(f, scan, pushed, dupOk)
      limit == IF accepted THEN n ELSE Min(n, Len(planned) - 1)
  IN IF limit >= Len(planned)
     THEN [issued |-> planned, df |-> <<QueryTable(f.cols, scan, pushed)>>]
     ELSE [issued |-> CallsUntilFailure(planned, limit), df |-> <<>>]

\* ------------------------------------------------------------------------
\* DataFrame: the projected constructor, GetColumn<T>, the observers
\* ------------------------------------------------------------------------
\* DataFrame(path, columns): df_(OpenProjected(path, columns)); the engine
\* fails when nothing is stored at the path or a column is not in the file
DataFrameOpenProjected(f, columns, dupOk) ==
  IF QueryAccepted(f, columns, <<>>, dupOk)
  THEN [status |-> "ok", df |-> <<QueryTable(f.cols, columns, <<>>)>>]
  ELSE [status |-> "engine_error", df |-> <<>>]

\* NumCols() and Columns()
NumCols(table) == Len(table)
Columns(table) ==
  [j \in 1..Len(table) |-> [name |-> table[j].name, type |-> table[j].type]]

\* A GetColumn whose failed fetch leaves the DataFrame without its table.
DataFrameGetColumnInvalidates(table, name, type, split) ==
  LET got == EngineChunks(table, name, type, split)
  IN [df |-> IF got[1] THEN <<table>> ELSE <<>>,
      status |-> IF got[1] THEN "ok" ELSE "engine_error",
      col |-> GetColumn(got[2])]

\* DataFrame::GetColumn<T>(name) const: the chunks the engine returns, added
\* to a fresh accessor; the engine's error leaves the function as thrown
DataFrameGetColumn(table, name, type, split) ==
  LET got == EngineChunks(table, name, type, split)
  IN [df |-> <<table>>,
      status |-> IF got[1] THEN "ok" ELSE "engine_error",
      col |-> GetColumn(got[2])]

\* names given to the projected constructor and to GetColumn
DfNameInputs == {"col_id", "col_name", "nope"}

\* the T of GetColumn<T>: int64_t and double
DfTypeInputs == {"i64", "f64"}

\* DataFrame df(path, columns)
DoOpenProjected(columns, dupOk) ==
  /\ df_ = <<>>
  /\ LET r == DataFrameOpenProjected(file, columns, dupOk)
     IN /\ df_' = r.df
        /\ df_last' = [NoDfCall EXCEPT !.op = "open_projected",
                                       !.status = r.status]
  /\ UNCHANGED read_result
  /\ UNCHANGED <<columnVars, codecVars, writerVars, engineVars, queryVars>>

\* df.GetColumn<T>(name)
DoGetColumn(name, type, split) ==
  /\ df_ # <<>>
  /\ LET r == DataFrameGetColumn(df_[1], name, type, split)
     IN /\ df_' = r.df
        /\ df_last' = [op |-> "GetColumn", status |-> r.status,
                       name |-> name, type |-> type, col |-> r.col]
  /\ UNCHANGED read_result
  /\ UNCHANGED <<columnVars, codecVars, writerVars, engineVars, queryVars>>

\* the DataFrame goes out of scope
CloseDataFrame ==
  /\ df_ # <<>>
  /\ df_' = <<>>
  /\ df_last' = NoDfCall
  /\ UNCHANGED read_result
  /\ UNCHANGED <<columnVars, codecVars, writerVars, engineVars, queryVars>>

\* ------------------------------------------------------------------------
\* One query, used as a call chain: Select and Filter calls, then Collect
\* ------------------------------------------------------------------------
Terms == Len(select_names_) + Len(filter_entries_)

\* names a caller passes to Select({...}); "nope" is no column of the file
NameInputs == {"col_name", "nope"}

\* the predicates a caller passes to Filter(&Entry::field, op, value)
FilterInputs ==
  << [field |-> "id", op |-> "Gt", value |-> 1],
     [field |-> "id", op |-> "Lt", value |-> 3],
     [field |-> "name", op |-> "Ne", value |-> "a"],
     [field |-> "active", op |-> "Eq", value |-> TRUE] >>

\* the rows of the table the query runs on
QueryTables ==
  { << [id |-> 1, name |-> "a", active |-> TRUE],
       [id |-> 2, name |-> "", active |-> FALSE],
       [id |-> 3, name |-> "a", active |-> FALSE] >>,
    << [id |-> 3, name |-> "b", active |-> TRUE],
       [id |-> 1, name |-> "a", active |-> TRUE] >> }

\* a codec whose record type has a member (active) that was not registered
PartialCodec == Register(EmptyCodec, SubSeq(Registration, 1, 2))

NoCall == [op |-> "none", status |-> "ok", unregistered |-> FALSE]

\* the member has no binding in the codec
Unregistered(c, field) ==
  \A k \in 1..Len(c.column_readers_) : c.column_readers_[k].field # field

InitQuery ==
  /\ select_names_ = <<>>
  /\ filter_entries_ = <<>>
  /\ q_last = NoCall
  /\ q_calls = <<>>
  /\ q_result = NoRead

\* query.Select(&Entry::a, &Entry::b, ...)
Select(ptrs) ==
  /\ q_result = NoRead
  /\ Terms + Len(ptrs) <= MaxTerms
  /\ LET r == SelectPtrs(codec, select_names_, ptrs)
     IN /\ select_names_' = r.names
        /\ q_last' = [op |-> "Select", status |-> r.status,
                      unregistered |->
                        \E k \in 1..Len(ptrs) : Unregistered(codec, ptrs[k])]
  /\ UNCHANGED <<filter_entries_, q_calls, q_result>>
  /\ UNCHANGED <<columnVars, codecVars, writerVars, engineVars, dfVars>>

\* query.Select({"a", "b", ...})
SelectNames(names) ==
  /\ q_result = NoRead
  /\ Terms + Len(names) <= MaxTerms
  /\ select_names_' = select_names_ \o names
  /\ q_last' = [op |-> "SelectNames", status |-> "ok", unregistered |-> FALSE]
  /\ UNCHANGED <<filter_entries_, q_calls, q_result>>
  /\ UNCHANGED <<columnVars, codecVars, writerVars, engineVars, dfVars>>

\* query.Filter(&Entry::field, op, value)
Filter(in) ==
  /\ q_result = NoRead
  /\ Terms < MaxTerms
  /\ LET found == FindColumnName(codec, in.field)
     IN /\ filter_entries_' =
             IF found.status = "ok"
             THEN Append(filter_entries_,
                         FilterEntry(found.val, in.op, FieldType[in.field],
                                     in.value))
             ELSE filter_entries_
        /\ q_last' = [op |-> "Filter", status |-> found.status,
                      unregistered |-> Unregistered(codec, in.field)]
  /\ UNCHANGED <<select_names_, q_calls, q_result>>
  /\ UNCHANGED <<columnVars, codecVars, writerVars, engineVars, dfVars>>

\* the engine calls that can fail: those that run the scan or fetch a column
Fallible == {"query_collect_df", "query_collect", "reader_get_column"}

\* How far the engine may let a Collect() get: through all its calls, or
\* (while failures are left to inject) up to a fallible call, which fails.
CollectOutcomes ==
  LET planned == CollectCalls(codec, select_names_, filter_entries_)
  IN {Len(planned)} \cup
     (IF failures < MaxFailures
      THEN {k - 1 : k \in {j \in 1..Len(planned) : planned[j].op \in Fallible}}
      ELSE {})

\* query.Collect(), the last call of the chain file.Read<Entry>()...Collect()
\* on the temporary query
DoCollect(n, dupOk) ==
  /\ q_result = NoRead
  /\ n \in CollectOutcomes
  /\ LET eff == Collect(codec, file, select_names_, filter_entries_, n, dupOk)
     IN /\ q_calls' = eff.issued
        /\ q_result' = eff.result
        /\ failures' = IF n < Len(CollectCalls(codec, select_names_,
                                               filter_entries_))
                       THEN failures + 1 ELSE failures
  /\ UNCHANGED <<select_names_, filter_entries_, q_last>>
  /\ UNCHANGED <<calls, ncalls, file, written>>
  /\ UNCHANGED <<columnVars, codecVars, writerVars, dfVars>>

DataFrameReturned == [status |-> "dataframe", records |-> <<>>]

\* builder.Collect() on a DataFrameBuilder holding the same two lists, the
\* last call of the chain DataFrame::Open(path)...Collect(): it fails at its
\* last call (the open or the collect) or not at all
DoBuilderCollect(fail, dupOk) ==
  /\ q_result = NoRead
  /\ fail => failures < MaxFailures
  /\ LET all == Len(BuilderCalls(select_names_, filter_entries_))
         eff == BuilderCollect(file, select_names_, filter_entries_,
                               IF fail THEN all - 1 ELSE all, dupOk)
     IN /\ q_calls' = eff.issued
        /\ q_result' = IF eff.df = <<>> THEN EngineError ELSE DataFrameReturned
        /\ df_' = eff.df
        /\ failures' = IF fail THEN failures + 1 ELSE failures
  /\ UNCHANGED <<select_names_, filter_entries_, q_last, read_result, df_last>>
  /\ UNCHANGED <<calls, ncalls, file, written>>
  /\ UNCHANGED <<columnVars, codecVars, writerVars>>

\* ------------------------------------------------------------------------
\* Iterators over a chunk list
\* ------------------------------------------------------------------------
MaxRawChunks == 6

IterNames == {"i", "j"}

NoIter == [live |-> FALSE, pos |-> NoIterator, incs |-> 0, seen |-> <<>>]

\* the elements a chunk view of length n at position k of the list addresses
ChunkData(k, n) == [e \in 1..n |-> 10 * k + e]

\* the chunk list whose chunks have these lengths
ChunksOfLengths(lens) == [k \in 1..Len(lens) |-> ChunkData(k, lens[k])]

\* auto k = col.begin(): ColumnIterator(&chunks_, 0, 0)
IterBegin(k) ==
  /\ its' = [its EXCEPT ![k] = [live |-> TRUE, pos |-> Begin(Col),
                                incs |-> 0, seen |-> <<>>]]
  /\ UNCHANGED <<accVars, loopVars, atVars>>
  /\ UNCHANGED outsideColumn

\* k != col.end(), then *k is read and ++k
IterAdvance(k) ==
  /\ its[k].live
  /\ ~IterEq(its[k].pos, End(Col))
  /\ its' = [its EXCEPT ![k] =
               [live |-> TRUE,
                pos |-> IterInc(chunks_, its[k].pos),
                incs |-> its[k].incs + 1,
                seen |-> Append(its[k].seen, Deref(chunks_, its[k].pos))]]
  /\ UNCHANGED <<accVars, loopVars, atVars>>
  /\ UNCHANGED outsideColumn

\* ------------------------------------------------------------------------
\* The ColumnAccessor of the legacy header (basis_rs/parquet.hpp): chunks_ and
\* total_size_, no prefix sums
\* ------------------------------------------------------------------------
\* ColumnAccessor::AddChunk(data, size) of the legacy header
LegacyAddChunk(a, data) ==
  [chunks |-> Append(a.chunks, data),
   offsets |-> a.offsets,
   total |-> a.total + Len(data)]

\* operator[] of the legacy header: the scan over the chunks from `offset` on
RECURSIVE LegacyScan(_, _, _)
LegacyScan(chs, global_idx, offset) ==
  IF chs = <<>> THEN OutOfRange
  ELSE IF global_idx < offset + Len(Head(chs))
  THEN Ok(Head(chs)[global_idx - offset + 1])
  ELSE LegacyScan(Tail(chs), global_idx, offset + Len(Head(chs)))

LegacySubscript(a, global_idx) == LegacyScan(a.chunks, global_idx, 0)

\* ------------------------------------------------------------------------
\* Initial state and actions of the accessor
\* ------------------------------------------------------------------------
InitColumn ==
  /\ chunks_ = <<>>
  /\ chunk_offsets_ = <<>>
  /\ total_size_ = 0
  /\ col_phase = "building"
  /\ loop_pc = "idle"
  /\ it_ = NoIterator
  /\ visited = <<>>
  /\ at_idx = 0
  /\ at_result = NoResult
  /\ its = [k \in IterNames |-> NoIter]

InitCodec == codec = GetParquetCodec /\ InitCodecUse

\* ParquetWriter<Entry> A(path); no second writer yet
InitWriters ==
  /\ w_state = [w \in W |-> IF w = "A" THEN "alive" ELSE "unborn"]
  /\ buffer_ = [w \in W |-> <<>>]
  /\ finalized_ = [w \in W |-> FALSE]
  /\ finished = [w \in W |-> FALSE]
  /\ discarded = [w \in W |-> FALSE]

InitEngine ==
  /\ calls = <<>>
  /\ ncalls = [w \in W |-> 0]
  /\ file = NoFile
  /\ written = <<>>
  /\ failures = 0

InitDf ==
  /\ df_ = <<>>
  /\ read_result = NoRead
  /\ df_last = NoDfCall

\* accessor.AddChunk(chunk.ptr, chunk.len), one call of GetColumn's loop
DoAddChunk(data) ==
  /\ col_phase = "building"
  /\ Len(chunks_) < MaxChunks
  /\ LET a == AddChunk(Col, data)
     IN /\ chunks_' = a.chunks
        /\ chunk_offsets_' = a.offsets
        /\ total_size_' = a.total
  /\ UNCHANGED <<col_phase, loopVars, atVars>>
  /\ UNCHANGED <<its, outsideColumn>>

\* accessor.AddChunk(ptr, size) on the legacy accessor
DoLegacyAddChunk(data) ==
  /\ Len(chunks_) < MaxChunks
  /\ LET a == LegacyAddChunk(Col, data)
     IN /\ chunks_' = a.chunks
        /\ chunk_offsets_' = a.offsets
        /\ total_size_' = a.total
  /\ at_idx' = 0
  /\ at_result' = NoResult
  /\ UNCHANGED <<col_phase, loopVars>>
  /\ UNCHANGED <<its, outsideColumn>>

\* accessor[global_idx] on the legacy accessor
DoLegacySubscript(global_idx) ==
  /\ at_idx' = global_idx
  /\ at_result' = LegacySubscript(Col, global_idx)
  /\ UNCHANGED <<accVars, loopVars>>
  /\ UNCHANGED <<its, outsideColumn>>

\* GetColumn returns the accessor; it is only read from here on.
ReturnAccessor ==
  /\ col_phase = "building"
  /\ col_phase' = "ready"
  /\ UNCHANGED <<chunks_, chunk_offsets_, total_size_, loopVars, atVars>>
  /\ UNCHANGED <<its, outsideColumn>>

\* for (const T& value : col): the loop obtains begin()
LoopBegin ==
  /\ col_phase = "ready"
  /\ loop_pc \in {"idle", "done"}
  /\ loop_pc' = "running"
  /\ it_' = Begin(Col)
  /\ visited' = <<>>
  /\ at_idx' = 0
  /\ at_result' = NoResult
  /\ UNCHANGED accVars
  /\ UNCHANGED <<its, outsideColumn>>

\* one pass of the loop: it != end(), read *it, ++it
LoopStep ==
  /\ loop_pc = "running"
  /\ ~IterEq(it_, End(Col))
  /\ visited' = Append(visited, Deref(chunks_, it_))
  /\ it_' = IterInc(chunks_, it_)
  /\ UNCHANGED <<loop_pc, accVars, atVars>>
  /\ UNCHANGED <<its, outsideColumn>>

\* the loop ends when it == end()
LoopEnd ==
  /\ loop_pc = "running"
  /\ IterEq(it_, End(Col))
  /\ loop_pc' = "done"
  /\ UNCHANGED <<it_, visited, accVars, atVars>>
  /\ UNCHANGED <<its, outsideColumn>>

\* col.at(idx), called outside a running loop; the model records one call
\* until the next loop starts
DoAt(idx) ==
  /\ col_phase = "ready"
  /\ loop_pc # "running"
  /\ at_result = NoResult
  /\ at_idx' = idx
  /\ at_result' = At(Col, idx)
  /\ loop_pc' = "idle"
  /\ it_' = NoIterator
  /\ visited' = <<>>
  /\ UNCHANGED accVars
  /\ UNCHANGED <<its, outsideColumn>>

MaxIndex == MaxChunks * MaxChunkLen + 1

NextAccessor ==
  \/ \E data \in SeqsUpTo(Values, MaxChunkLen) : DoAddChunk(data)
  \/ ReturnAccessor
  \/ LoopBegin
  \/ LoopStep
  \/ LoopEnd
  \/ \E idx \in 0..MaxIndex : DoAt(idx)

InitAccessor == InitColumn /\ InitCodec /\ InitWriters /\ InitEngine /\ InitDf /\ InitQuery

SpecAccessor == InitAccessor /\ [][NextAccessor]_vars

\* ------------------------------------------------------------------------
\* Two iterators over the accessor GetColumn has built from the engine's
\* chunks
\* ------------------------------------------------------------------------
InitIterators ==
  /\ InitCodec /\ InitWriters /\ InitEngine /\ InitDf /\ InitQuery
  /\ \E lens \in SeqsUpTo(0..MaxChunkLen, MaxChunks) :
       LET a == GetColumn(ChunksOfLengths(lens))
       IN /\ chunks_ = a.chunks
          /\ chunk_offsets_ = a.offsets
          /\ total_size_ = a.total
  /\ col_phase = "ready"
  /\ loop_pc = "idle" /\ it_ = NoIterator /\ visited = <<>>
  /\ at_idx = 0 /\ at_result = NoResult
  /\ its = [k \in IterNames |-> NoIter]

NextIterators ==
  \/ \E k \in IterNames : IterBegin(k)
  \/ \E k \in IterNames : IterAdvance(k)

SpecIterators == InitIterators /\ [][NextIterators]_vars

\* ------------------------------------------------------------------------
\* One iterator over a chunk list that may hold empty chunks anywhere
\* ------------------------------------------------------------------------
InitRawIterator ==
  /\ InitCodec /\ InitWriters /\ InitEngine /\ InitDf /\ InitQuery
  /\ \E lens \in SeqsUpTo(0..MaxChunkLen, MaxRawChunks) :
       chunks_ = ChunksOfLengths(lens)
  /\ chunk_offsets_ = <<>>
  /\ total_size_ = 0
  /\ col_phase = "ready"
  /\ loop_pc = "idle" /\ it_ = NoIterator /\ visited = <<>>
  /\ at_idx = 0 /\ at_result = NoResult
  /\ its = [k \in IterNames |-> NoIter]

NextRawIterator ==
  \/ IterBegin("i")
  \/ IterAdvance("i")

SpecRawIterator == InitRawIterator /\ [][NextRawIterator]_vars

\* ------------------------------------------------------------------------
\* The writer's life cycle: two writer objects, the second move-constructed
\* ------------------------------------------------------------------------
InitWriter == InitColumn /\ InitCodec /\ InitWriters /\ InitEngine /\ InitDf /\ InitQuery

NextWriter ==
  \/ \E w \in W, r \in LifecycleRecords : WriteRecord(w, r)
  \/ \E w \in W, rs \in SeqsUpTo(LifecycleRecords, MaxBuffer) : WriteRecords(w, rs)
  \/ \E w \in W, n \in Outcomes(codec) : DoFinish(w, n)
  \/ \E w \in W : DoDiscard(w)
  \/ \E w \in W, n \in Outcomes(codec) : Destroy(w, n)
  \/ MoveConstruct("A", "B")

SpecWriter == InitWriter /\ [][NextWriter]_vars

\* C8: a writer holding zero records issues no engine call (writer_new, an
\* add-column call, writer_finish) in any step, be it Finish() or its
\* destruction, and so creates no file.
C8_EmptyWriterNoEngineCall ==
  [][\A w \in W : buffer_[w] = <<>> =>
        /\ ncalls'[w] = ncalls[w]
        /\ (\A v \in W \ {w} : ncalls'[v] = ncalls[v]) => file' = file]_vars

\* an empty writer was finished and destroyed, and nothing was stored
C8_Witness ==
  /\ w_state = [A |-> "dead", B |-> "unborn"]
  /\ finished["A"] /\ ~discarded["A"]
  /\ buffer_["A"] = <<>>
  /\ ncalls["A"] = 0 /\ ~file.exists

\* C9: Discard() leaves the buffer empty and the writer finalized, and from
\* then on no step of that writer (Finish, WriteRecord, destruction) issues
\* an engine call.
C9_DiscardNeverTouchesStorage ==
  [][\A w \in W :
        /\ (discarded'[w] /\ ~discarded[w]) =>
              (buffer_'[w] = <<>> /\ finalized_'[w] /\ ncalls'[w] = ncalls[w])
        /\ discarded[w] => ncalls'[w] = ncalls[w]]_vars

\* records were buffered, discarded, more were buffered, Finish() was called
\* and the writer was destroyed: no engine call, no file
C9_Witness ==
  /\ discarded["A"] /\ finished["A"] /\ w_state["A"] = "dead"
  /\ buffer_["A"] # <<>>
  /\ w_state["B"] = "unborn"
  /\ ncalls["A"] = 0 /\ ~file.exists

\* C10: once Finish() has completed or Discard() was called the writer stays
\* finalized, and no later step of it issues an engine call.
C10_FinishedDiscardedTerminal ==
  [][\A w \in W : (finished[w] \/ discarded[w]) =>
        /\ finalized_[w] /\ finalized_'[w]
        /\ ncalls'[w] = ncalls[w]
        /\ (finished[w] => finished'[w])
        /\ (discarded[w] => discarded'[w])]_vars

\* a writer flushed its records, took more, was finished again and destroyed:
\* the engine saw exactly the calls of the first Finish()
C10_Witness ==
  /\ finished["A"] /\ ~discarded["A"] /\ w_state["A"] = "dead"
  /\ file.exists /\ Len(buffer_["A"]) > Len(written)
  /\ w_state["B"] = "unborn"
  /\ ncalls["A"] = NumWriterCalls(codec)

\* the writer is open and holds records
OpenNonEmpty(w) == w_state[w] = "alive" /\ ~finalized_[w] /\ buffer_[w] # <<>>

\* C11: the destruction of an open, non-empty writer makes the engine calls
\* of an explicit Finish() on its buffer; when they succeed the file holds
\* all the buffered records, when one fails the error does not leave the
\* destructor; either way the writer is destroyed.
C11_DestructorFinishes ==
  [][\A w \in W : (OpenNonEmpty(w) /\ w_state'[w] # "alive") =>
        /\ w_state'[w] = "dead"
        /\ \/ /\ calls' = WriterCalls(w, codec, buffer_[w])
              /\ file' = StoredTable(WriteAll(codec, buffer_[w]))
              /\ written' = buffer_[w]
              /\ finalized_'[w]
              /\ failures' = failures
           \/ /\ failures' = failures + 1
              /\ \E n \in 0..(NumWriterCalls(codec) - 1) :
                   calls' = CallsUntilFailure(
                              WriterCalls(w, codec, buffer_[w]), n)
              /\ file' = file
              /\ ~finalized_'[w]]_vars

\* a writer that was never finished was destroyed and its records are stored
C11_Witness ==
  /\ w_state["A"] = "dead" /\ w_state["B"] = "unborn"
  /\ ~finished["A"] /\ ~discarded["A"]
  /\ buffer_["A"] # <<>>
  /\ file = StoredTable(WriteAll(codec, buffer_["A"]))
  /\ failures = 0

\* a Finish() of the writer has failed and the writer is still open
FailedOpen(w) == ncalls[w] > 0 /\ ~finalized_[w]

\* C12: after an engine call has failed inside a Finish() of a writer, the
\* failed engine work is not attempted again by a step the writer takes on
\* its own: its destructor issues no engine call.
C12_NoRetries ==
  [][\A w \in W : (FailedOpen(w) /\ w_state'[w] # "alive") =>
        ncalls'[w] = ncalls[w]]_vars

\* the calls cs are what one Finish() of writer w with buffer buf may issue:
\* writer_new, then the column of each binding in registration order with the
\* member's value of every buffered record in insertion order, then
\* writer_finish; only the last call issued can have failed, and the calls
\* stop short of writer_finish only when one failed
FinishCallOrder(cs, w, buf) ==
  LET nb == Len(codec.column_names_)
  IN /\ Len(cs) >= 1 /\ Len(cs) <= nb + 2
     /\ \A k \in 1..Len(cs) :
          /\ cs[k].obj = w
          /\ k < Len(cs) => cs[k].ok
          /\ k = 1 => cs[k].op = "writer_new"
          /\ (k > 1 /\ k <= nb + 1) =>
               /\ cs[k].op = "writer_add_column"
               /\ cs[k].column.name = codec.column_names_[k - 1]
               /\ cs[k].column.values =
                    [i \in 1..Len(buf) |->
                       buf[i][codec.column_writers_[k - 1].field]]
          /\ k = nb + 2 => cs[k].op = "writer_finish"
     /\ Len(cs) < nb + 2 => ~cs[Len(cs)].ok

\* C24: a Finish() on a non-empty buffer issues writer_new once, then one
\* add-column call per binding in registration order, each with that
\* member's value of every buffered record in insertion order, then
\* writer_finish once; writer_finish is not issued before every column was
\* added, and not at all when an add-column call failed.
C24_FinishCallOrder ==
  [][\A w \in W : ncalls'[w] # ncalls[w] =>
        /\ buffer_[w] # <<>>
        /\ FinishCallOrder(calls', w, buffer_[w])]_vars

\* a Finish() of two different records has failed at its second column
C24_Witness ==
  /\ Len(buffer_["A"]) = 2
  /\ buffer_["A"][1].id # buffer_["A"][2].id
  /\ Len(calls) = 3
  /\ calls[2].op = "writer_add_column" /\ calls[2].ok
  /\ calls[2].column.values = <<buffer_["A"][1].id, buffer_["A"][2].id>>
  /\ calls[3].op = "writer_add_column" /\ ~calls[3].ok
  /\ file = NoFile

\* B has been move-constructed from A
Moved == w_state["B"] # "unborn"

\* this step of writer w has stored a table: its writer_finish succeeded
StoresIn(w, cs) ==
  /\ cs # <<>>
  /\ cs[Len(cs)] = CWriterFinish(w, TRUE)

InitRoundTrip == InitColumn /\ InitCodec /\ InitWriters /\ InitEngine /\ InitDf /\ InitQuery

NextRoundTrip ==
  \/ \E r \in Records : WriteRecord("A", r)
  \/ \E rs \in SeqsUpTo(Records, MaxBuffer) : WriteRecords("A", rs)
  \/ \E n \in Outcomes(codec) : DoFinish("A", n)
  \/ \E n \in Outcomes(codec) : Destroy("A", n)
  \/ OpenDataFrame
  \/ \E split \in 0..MaxBuffer, lenient \in BOOLEAN : ReadAllAs(split, lenient)

SpecRoundTrip == InitRoundTrip /\ [][NextRoundTrip]_vars

\* ------------------------------------------------------------------------
\* A query on a table a writer of the same codec has stored
\* ------------------------------------------------------------------------
InitStored ==
  /\ codec \in {GetParquetCodec, PartialCodec}
  /\ InitCodecUse
  /\ written \in QueryTables
  /\ file = StoredTable(WriteAll(codec, written))
  /\ calls = WriterCalls("A", codec, written)
  /\ ncalls = [w \in W |-> IF w = "A" THEN NumWriterCalls(codec) ELSE 0]
  /\ failures = 0
  /\ w_state = [w \in W |-> IF w = "A" THEN "dead" ELSE "unborn"]
  /\ buffer_ = [w \in W |-> IF w = "A" THEN written ELSE <<>>]
  /\ finalized_ = [w \in W |-> w = "A"]
  /\ finished = [w \in W |-> w = "A"]
  /\ discarded = [w \in W |-> FALSE]

InitQuerySpec == InitColumn /\ InitStored /\ InitDf /\ InitQuery

NextQuery ==
  \/ \E ptrs \in SeqsUpTo(Fields, MaxTerms) : Select(ptrs)
  \/ \E names \in SeqsUpTo(NameInputs, MaxTerms) : SelectNames(names)
  \/ \E k \in 1..Len(FilterInputs) : Filter(FilterInputs[k])
  \/ \E n \in CollectOutcomes, dupOk \in BOOLEAN : DoCollect(n, dupOk)
  \/ \E fail \in BOOLEAN, dupOk \in BOOLEAN : DoBuilderCollect(fail, dupOk)

SpecQuery == InitQuerySpec /\ [][NextQuery]_vars

\* ------------------------------------------------------------------------
\* DataFrames opened on a path where a table is stored, or nothing is
\* ------------------------------------------------------------------------
InitDataFrame ==
  /\ InitColumn /\ InitDf /\ InitQuery
  /\ \/ InitStored
     \/ InitCodec /\ InitWriters /\ InitEngine

NextDataFrame ==
  \/ OpenDataFrame
  \/ \E columns \in SeqsUpTo(DfNameInputs, MaxTerms), dupOk \in BOOLEAN :
       DoOpenProjected(columns, dupOk)
  \/ \E name \in DfNameInputs, type \in DfTypeInputs, split \in 0..MaxBuffer :
       DoGetColumn(name, type, split)
  \/ CloseDataFrame

SpecDataFrame == InitDataFrame /\ [][NextDataFrame]_vars

\* ------------------------------------------------------------------------
\* The legacy accessor: any AddChunk calls, and subscripts
\* ------------------------------------------------------------------------
InitLegacyAccessor ==
  /\ InitColumn /\ InitCodec /\ InitWriters /\ InitEngine /\ InitDf /\ InitQuery

NextLegacyAccessor ==
  \/ \E data \in SeqsUpTo(Values, MaxChunkLen) : DoLegacyAddChunk(data)
  \/ \E i \in 0..MaxIndex : DoLegacySubscript(i)

SpecLegacyAccessor == InitLegacyAccessor /\ [][NextLegacyAccessor]_vars

\* ------------------------------------------------------------------------
\* Building a codec: any Add calls, and lookups on what has been registered
\* ------------------------------------------------------------------------
InitRegistration ==
  /\ InitColumn /\ InitWriters /\ InitEngine /\ InitDf /\ InitQuery
  /\ codec = EmptyCodec
  /\ InitCodecUse

NextRegistration ==
  \/ \E name \in ColumnNames, field \in Fields : DoAdd(name, field)
  \/ \E field \in Fields : DoFindColumnName(field)

SpecRegistration == InitRegistration /\ [][NextRegistration]_vars

\* ------------------------------------------------------------------------
\* Building a codec with all three registration calls
\* ------------------------------------------------------------------------
NextLegacyRegistration ==
  \/ \E k \in 1..Len(Registration) :
       DoAdd(Registration[k].name, Registration[k].field)
  \/ \E k \in 1..Len(Registration) : DoAddLegacyReader(Registration[k])
  \/ \E k \in 1..Len(Registration) : DoAddLegacyWriter(Registration[k])

SpecLegacyRegistration == InitRegistration /\ [][NextLegacyRegistration]_vars

\* ------------------------------------------------------------------------
\* Two threads calling into the constructed codec
\* ------------------------------------------------------------------------
InitThreads ==
  /\ InitColumn /\ InitWriters /\ InitEngine /\ InitDf /\ InitQuery
  /\ codec \in {GetParquetCodec, PartialCodec}
  /\ InitCodecUse

NextThreads ==
  \/ \E t \in Threads, field \in Fields : ThreadFind(t, field)
  \/ \E t \in Threads : ThreadWrite(t)
  \/ \E t \in Threads : ThreadStep(t)
  \/ \E t \in Threads : ThreadReturn(t)

SpecThreads == InitThreads /\ [][NextThreads]_vars

\* C3: records written with WriteRecord/WriteRecords and Finish, read back
\* with DataFrame::ReadAllAs, come back as the same N records in the order
\* written, every registered field (integer, text, boolean) equal.
C3_RoundTrip ==
  read_result.status # "none" =>
    read_result = [status |-> "ok", records |-> written]

\* The integer and text members do come back as written.
IntegerAndTextRoundTrip ==
  read_result.status = "ok" =>
    /\ Len(read_result.records) = Len(written)
    /\ \A i \in 1..Len(written) :
         /\ read_result.records[i].id = written[i].id
         /\ read_result.records[i].name = written[i].name

\* ------------------------------------------------------------------------
\* Claims about the accessor
\* ------------------------------------------------------------------------
\* col[0], col[1], ..., col[size()-1]
IndexSeq(a) == [i \in 1..a.total |-> Subscript(a, i - 1)]

\* Chunk(0) .. Chunk(NumChunks()-1), concatenated
ConcatChunks(a) ==
  LET flat == Flatten(a.chunks) IN [i \in 1..Len(flat) |-> Ok(flat[i])]

\* C1: for every accessor built by AddChunk calls, the values a begin()..end()
\* loop produces are, element for element and in order, col[0..size()-1], and
\* both are the concatenation of Chunk(0)..Chunk(NumChunks()-1).
C1_IterationIndexConcatAgree ==
  /\ IndexSeq(Col) = ConcatChunks(Col)
  /\ loop_pc = "done" => visited = IndexSeq(Col)
  /\ loop_pc = "running" =>
       /\ Len(visited) <= Len(ConcatChunks(Col))
       /\ visited = SubSeq(ConcatChunks(Col), 1, Len(visited))

\* C1 witness: a finished loop over several chunks of differing lengths.
C1_Witness ==
  /\ loop_pc = "done"
  /\ Len(chunks_) >= 2
  /\ Len(chunks_[1]) # Len(chunks_[2])
  /\ Len(visited) = total_size_
  /\ visited[1] # visited[Len(visited)]

\* C2: col.at(i) fails with out_of_range whenever i >= size() (also on an
\* empty accessor), and for i < size() returns the element col[i].
C2_AtBoundsChecked ==
  at_result.status # "none" =>
    /\ at_idx >= total_size_ => at_result = OutOfRange
    /\ at_idx < total_size_ =>
         /\ at_result = Subscript(Col, at_idx)
         /\ at_result = ConcatChunks(Col)[at_idx + 1]

\* C2 witness: at(size()) on a non-empty accessor has thrown.
C2_Witness ==
  /\ at_result = OutOfRange
  /\ at_idx = total_size_
  /\ total_size_ > 0

\* C18: after any AddChunk calls, calls with length 0 among them, no stored
\* chunk has length 0, so NumChunks() counts the non-empty chunks only.
C18_NoEmptyChunkStored ==
  \A i \in 1..Len(chunks_) : Len(chunks_[i]) > 0

\* 0-based position of the first prefix sum that is >= idx, and of the first
\* that is > idx (the number of prefix sums when there is none)
FirstAtLeast(idx) ==
  MinOf({k \in 1..Len(chunk_offsets_) : chunk_offsets_[k] >= idx}
          \cup {Len(chunk_offsets_) + 1}) - 1
FirstGreater(idx) ==
  MinOf({k \in 1..Len(chunk_offsets_) : chunk_offsets_[k] > idx}
          \cup {Len(chunk_offsets_) + 1}) - 1

\* operator[](idx) picks chunk `pos`; the offset left after subtracting the
\* preceding prefix sum lies inside that chunk, and the element there is the
\* idx-th element of the column and is what operator[] returns
ResolvedAt(pos, idx) ==
  LET offset == IF pos = 0 THEN 0 ELSE chunk_offsets_[pos]
  IN /\ UpperBound(chunk_offsets_, idx) = pos
     /\ pos < Len(chunks_)
     /\ idx - offset >= 0
     /\ idx - offset < Len(chunks_[pos + 1])
     /\ chunks_[pos + 1][idx - offset + 1] = Flatten(chunks_)[idx + 1]
     /\ Subscript(Col, idx) = Ok(Flatten(chunks_)[idx + 1])

\* C21 as stated: for every idx < size(), operator[] resolves the chunk as
\* the position of the first prefix sum >= idx, the offset is inside that
\* chunk and the element fetched is the idx-th element of the column.
C21_FirstPrefixAtLeast ==
  \A idx \in 0..(total_size_ - 1) : ResolvedAt(FirstAtLeast(idx), idx)

\* C21: for every idx < size(), operator[] resolves the chunk as the
\* position of the first prefix sum strictly greater than idx, the offset is
\* inside that chunk (also when idx lies on a chunk boundary) and the element
\* fetched is the idx-th element of the column.
C21_FirstPrefixGreater ==
  \A idx \in 0..(total_size_ - 1) : ResolvedAt(FirstGreater(idx), idx)

\* at(i) with i the first index of the second chunk has returned its element
C21_Witness ==
  /\ Len(chunks_) = 2
  /\ at_idx = chunk_offsets_[1]
  /\ at_result = Ok(chunks_[2][1])
  /\ chunks_[2][1] # chunks_[1][Len(chunks_[1])]

\* the total length of the first i stored chunks
LengthUpTo(i) == Len(Flatten(SubSeq(chunks_, 1, i)))

\* C20: size() is the sum of the lengths of the stored chunks; the prefix-sum
\* list has one entry per stored chunk; entry i is the total length of chunks
\* 0..i; the entries are strictly increasing and the last one is size().
C20_PrefixSums ==
  /\ total_size_ = LengthUpTo(Len(chunks_))
  /\ Len(chunk_offsets_) = Len(chunks_)
  /\ \A i \in 1..Len(chunks_) : chunk_offsets_[i] = LengthUpTo(i)
  /\ \A i, j \in 1..Len(chunk_offsets_) :
       i < j => chunk_offsets_[i] < chunk_offsets_[j]
  /\ chunk_offsets_ # <<>> => chunk_offsets_[Len(chunk_offsets_)] = total_size_

\* two chunks of different lengths have been added
C20_Witness ==
  /\ Len(chunks_) = 2
  /\ Len(chunks_[1]) = 2 /\ Len(chunks_[2]) = 1
  /\ chunk_offsets_ = <<2, 3>>
  /\ total_size_ = 3

\* the values of the first n elements of the chunk list, as reads return them
FirstElements(n) ==
  [i \in 1..n |-> Ok(Flatten(chunks_)[i])]

\* C22: an iterator obtained from begin() equals end() after exactly size()
\* increments and not before (at once when size() is 0), it has then read
\* the elements of the column in order, and a step of one iterator leaves
\* every other iterator, its position and the values it has read, unchanged.
C22_IterationTerminates ==
  /\ [](\A k \in IterNames : its[k].live =>
          /\ its[k].incs <= total_size_
          /\ IterEq(its[k].pos, End(Col)) <=> its[k].incs = total_size_
          /\ its[k].seen = FirstElements(its[k].incs))
  /\ [][\A k, j \in IterNames :
          (its'[k] # its[k] /\ j # k) => its'[j] = its[j]]_vars

\* one iterator has reached end() after size() increments while a second
\* one, begun separately, has been advanced once
C22_Witness ==
  /\ Len(chunks_) = 2
  /\ total_size_ = 3
  /\ its["i"].live /\ its["i"].incs = 3 /\ IterEq(its["i"].pos, End(Col))
  /\ its["j"].live /\ its["j"].incs = 1
  /\ its["j"].seen = <<Ok(chunks_[1][1])>>

\* the iterator rests on an element of a non-empty chunk
OnElement(it) ==
  /\ it.chunk_idx < Len(chunks_)
  /\ Len(chunks_[it.chunk_idx + 1]) > 0
  /\ it.elem_idx < Len(chunks_[it.chunk_idx + 1])

\* C23: over a chunk list with zero-length chunks anywhere, an iterator
\* constructed at (0, 0) rests only on an element of a non-empty chunk or on
\* the end position (chunks.size(), 0), reads exactly the elements of the
\* non-empty chunks in order, and equals the end iterator exactly when it
\* has read them all.
C23_EmptyChunksSkipped ==
  \A k \in IterNames : its[k].live =>
    /\ OnElement(its[k].pos)
         \/ its[k].pos = [chunk_idx |-> Len(chunks_), elem_idx |-> 0]
    /\ its[k].incs <= Len(Flatten(chunks_))
    /\ its[k].seen = FirstElements(its[k].incs)
    /\ IterEq(its[k].pos, End(Col)) <=> its[k].incs = Len(Flatten(chunks_))

\* empty chunks first, in the middle (two in a row) and last: the iterator
\* has read both elements and is at the end position
C23_Witness ==
  /\ Len(chunks_) = 6
  /\ \A c \in {1, 3, 4, 6} : Len(chunks_[c]) = 0
  /\ Len(chunks_[2]) = 1 /\ Len(chunks_[5]) = 1
  /\ its["i"].live
  /\ its["i"].seen = <<Ok(chunks_[2][1]), Ok(chunks_[5][1])>>
  /\ its["i"].pos = [chunk_idx |-> 6, elem_idx |-> 0]

\* ------------------------------------------------------------------------
\* Claims about the query
\* ------------------------------------------------------------------------
\* what an unfiltered full read of the stored table gives
FullRead == ReadAll(codec, file.cols).records

\* the record members bound to one of these columns
BoundFields(names) ==
  {codec.column_readers_[k].field : k \in
     {j \in 1..Len(codec.column_readers_) :
        codec.column_readers_[j].name \in Range(names)}}

\* the record member bound to this column
FieldOf(column) ==
  codec.column_readers_[CHOOSE k \in 1..Len(codec.column_readers_) :
                          codec.column_readers_[k].name = column].field

\* a Collect() with no predicate returned normally after a Select call
SelectedAndCollected ==
  /\ q_result.status = "ok"
  /\ filter_entries_ = <<>>
  /\ q_last.op \in {"Select", "SelectNames"}
  /\ q_last.status = "ok"

\* one record per row; members bound to a selected column as in the full
\* read, all other members at their default
SelectedFieldsOnly ==
  /\ Len(q_result.records) = Len(FullRead)
  /\ \A i \in 1..Len(FullRead) : \A f \in Fields :
       q_result.records[i][f] =
         IF f \in BoundFields(select_names_) THEN FullRead[i][f]
         ELSE DefaultRecord[f]

\* C4 as stated: for any subset S of the registered columns, the empty one
\* included, Select(S) and Collect without filters returns one record per
\* row with the members of S as in the full read and every other member at
\* its default.
C4_SelectAnySubset == SelectedAndCollected => SelectedFieldsOnly

\* C4: for any non-empty subset S of the registered columns, Select(S) and
\* Collect without filters returns one record per row, in row order, with the
\* members bound to S as in the full read and every other member at its
\* default; with S empty Collect returns the full read.
C4_SelectNonEmptySubset ==
  SelectedAndCollected =>
    IF select_names_ = <<>> THEN q_result.records = FullRead
    ELSE SelectedFieldsOnly

\* only the name column was selected: the name is read, the id is not
C4_Witness ==
  /\ SelectedAndCollected
  /\ select_names_ = <<"col_name">>
  /\ FullRead[1].id = 1 /\ FullRead[1].name = "a"
  /\ q_result.records[1] = [id |-> 0, name |-> "a", active |-> FALSE]

\* the rows of the full read that satisfy every accumulated predicate
ExpectedRows ==
  SelectSeq(FullRead,
            LAMBDA r : \A k \in 1..Len(filter_entries_) :
               Satisfies(r[FieldOf(filter_entries_[k].column)],
                         filter_entries_[k].op, filter_entries_[k].value))

\* the members a Collect() of this query reads
MembersRead ==
  IF select_names_ = <<>> THEN BoundFields(codec.column_names_)
  ELSE BoundFields(select_names_)

\* the calls made on one engine query object
CallsOn(obj) == SelectSeq(q_calls, LAMBDA c : c.obj = obj)

\* C5: after k >= 0 Filter calls a Collect() that returns, returns exactly
\* the rows that satisfy all k predicates, in row order (all rows when
\* k = 0), and both engine queries were given exactly the accumulated
\* predicates, in order.
C5_FiltersConjoined ==
  q_result.status = "ok" =>
    /\ Len(q_result.records) = Len(ExpectedRows)
    /\ \A i \in 1..Len(ExpectedRows) : \A f \in MembersRead :
         q_result.records[i][f] = ExpectedRows[i][f]
    /\ PushedFilters(CallsOn("reader")) = filter_entries_
    /\ PushedFilters(CallsOn("query")) = filter_entries_

\* two predicates kept some rows and dropped others
C5_Witness ==
  /\ q_result.status = "ok"
  /\ Len(filter_entries_) = 2
  /\ filter_entries_[1].column # filter_entries_[2].column
  /\ Len(q_result.records) > 0
  /\ Len(q_result.records) < Len(FullRead)

\* the selection Collect() works with: the selected names, all the codec's
\* columns when none was selected
Selection == IF select_names_ = <<>> THEN codec.column_names_ ELSE select_names_

FilterColumns == [k \in 1..Len(filter_entries_) |-> filter_entries_[k].column]

FirstPosition(q, x) == MinOf({k \in 1..Len(q) : q[k] = x})

\* scan is the selection followed by the predicates' columns that are not in
\* it, each once, in predicate order
IsScanOf(scan, selection, fcols) ==
  /\ Len(scan) >= Len(selection)
  /\ SubSeq(scan, 1, Len(selection)) = selection
  /\ Range(fcols) \subseteq Range(scan)
  /\ Range(scan) \subseteq Range(selection) \cup Range(fcols)
  /\ \A j \in (Len(selection) + 1)..Len(scan) :
       /\ scan[j] \in Range(fcols) \ Range(selection)
       /\ \A h \in (Len(selection) + 1)..(j - 1) :
            /\ scan[h] # scan[j]
            /\ FirstPosition(fcols, scan[h]) < FirstPosition(fcols, scan[j])

\* C6: every projection a Collect() (of ParquetQuery, of DataFrameBuilder)
\* pushes to the engine is the selected
\* columns in selection order followed by the filter-only columns in
\* predicate order, a predicate's column already present not appended again,
\* and no other column.
C6_ScanColumns ==
  \A k \in 1..Len(q_calls) :
    q_calls[k].op \in {"query_select", "open_projected"} =>
      IsScanOf(q_calls[k].columns,
               IF q_calls[k].obj \in {"query", "reader"} THEN Selection
               ELSE select_names_,
               FilterColumns)

\* a selection, a predicate on a selected column and one on another column
C6_Witness ==
  /\ q_result.status = "ok"
  /\ select_names_ # <<>>
  /\ Len(filter_entries_) = 2
  /\ filter_entries_[1].column \in Range(select_names_)
  /\ filter_entries_[2].column \notin Range(select_names_)
  /\ PushedColumns(CallsOn("reader")) =
       Append(select_names_, filter_entries_[2].column)

Scans ==
  SelectSeq(q_calls, LAMBDA c : c.op \in {"query_collect_df", "query_collect",
                                          "open", "open_projected"})

\* C13: a query that has been collected has been executed against the
\* engine exactly once: the engine ran exactly one scan for it.
C13_ExecutedOnce ==
  q_result.status \in {"ok", "dataframe"} => Len(Scans) = 1

\* ------------------------------------------------------------------------
\* Claims about the DataFrame readers of the codec
\* ------------------------------------------------------------------------
\* C14: the DataFrame reader of a boolean member assigns to each record's
\* boolean member the value of the column in that row.
C14_BoolFieldAssigned ==
  read_result.status = "ok" =>
    /\ Len(read_result.records) = Len(written)
    /\ \A i \in 1..Len(written) :
         read_result.records[i].active = written[i].active

\* ------------------------------------------------------------------------
\* Claims about the codec
\* ------------------------------------------------------------------------
\* C15: after any sequence of Add calls no byte offset is registered twice
\* (the map from member to column name is injective) and no column name has
\* two bindings.
C15_NoDuplicateBindings ==
  /\ NoDuplicates(codec.column_offsets_)
  /\ NoDuplicates(codec.column_names_)

\* what the call of a thread returns when it runs alone on codec c
Sequential(c, s) ==
  IF s.op = "find"
  THEN [result |-> FindColumnName(c, s.field), out |-> <<>>]
  ELSE [result |-> Ok(""), out |-> WriteAll(c, ThreadRecords)]

Fetchable(table, name, type) ==
  HasColumn(table, name) /\ ColumnNamed(table, name).type = type

\* C16: GetColumn<T>(name) fails exactly when the DataFrame has no column of
\* that name or the column's type is not T (and otherwise returns the
\* column's values); a failed GetColumn leaves the DataFrame as it was:
\* NumRows, NumCols, Columns and every GetColumn return what they returned
\* before.
C16_GetColumnFailsCleanly ==
  /\ [](df_last.op = "GetColumn" =>
          /\ df_ # <<>>
          /\ df_last.status = "engine_error" <=>
               ~Fetchable(df_[1], df_last.name, df_last.type)
          /\ df_last.status = "ok" =>
               Flatten(df_last.col.chunks) =
                 ColumnNamed(df_[1], df_last.name).values)
  /\ [][(df_last'.op = "GetColumn" /\ df_last'.status = "engine_error") =>
          /\ df_' = df_
          /\ NumRows(df_'[1]) = NumRows(df_[1])
          /\ NumCols(df_'[1]) = NumCols(df_[1])
          /\ Columns(df_'[1]) = Columns(df_[1])
          /\ \A n \in DfNameInputs, ty \in DfTypeInputs, sp \in 0..MaxBuffer :
               DataFrameGetColumn(df_'[1], n, ty, sp) =
                 DataFrameGetColumn(df_[1], n, ty, sp)]_vars

\* GetColumn<double> on the integer column of a table with rows has failed
C16_Witness ==
  /\ df_last.op = "GetColumn" /\ df_last.status = "engine_error"
  /\ df_last.name = "col_id" /\ df_last.type = "f64"
  /\ df_ # <<>>
  /\ HasColumn(df_[1], "col_id")
  /\ NumRows(df_[1]) > 0

\* C17: on a path where nothing is stored both constructors, DataFrame(path)
\* and DataFrame(path, columns), fail, and no DataFrame exists afterwards.
C17_OpenMissingFails ==
  (df_last.op \in {"open", "open_projected"} /\ ~file.exists) =>
    (df_last.status = "engine_error" /\ df_ = <<>>)

\* the plain constructor has failed on the missing file
C17_Witness ==
  /\ ~file.exists
  /\ df_last.op = "open" /\ df_last.status = "engine_error"
  /\ df_ = <<>>

\* C25: ReadAllFromDf returns NumRows() records, and for every registered
\* reader, record i holds the i-th value of the reader's column for i below
\* the column's length and the member's default above it.
C25_EveryReaderAssigns ==
  read_result.status = "ok" =>
    /\ Len(read_result.records) = NumRows(df_[1])
    /\ \A k \in 1..Len(codec.df_readers_) :
         LET rd == codec.df_readers_[k]
             v == ColumnNamed(df_[1], rd.name).values
         IN /\ HasColumn(df_[1], rd.name)
            /\ \A i \in 1..NumRows(df_[1]) :
                 read_result.records[i][rd.field] =
                   IF i <= Len(v) THEN v[i] ELSE DefaultRecord[rd.field]

\* C26: a Collect() of a query with no predicate is a plain open of the
\* file, projected on the selected columns when there are any: it issues one
\* open call and creates no engine query object.
C26_NoPredicatePlainOpen ==
  (q_result.status \in {"ok", "dataframe"} /\ filter_entries_ = <<>>) =>
    /\ \A k \in 1..Len(q_calls) : q_calls[k].op # "query_new"
    /\ Len(q_calls) >= 1
    /\ IF select_names_ = <<>> THEN q_calls[1].op = "open"
       ELSE /\ q_calls[1].op = "open_projected"
            /\ q_calls[1].columns = select_names_

\* the columns the legacy readers of the last Collect() fetched, in order
FetchedColumns ==
  LET gets == SelectSeq(q_calls, LAMBDA c : c.op = "reader_get_column")
  IN [k \in 1..Len(gets) |-> gets[k].column]

\* the selected names that are columns of the codec, in selection order
\* (every column of the codec when nothing was selected)
SelectedRegistered ==
  IF select_names_ = <<>> THEN codec.column_names_
  ELSE SelectSeq(select_names_, LAMBDA n : n \in Range(codec.column_names_))

\* C27: the second engine pass of ParquetQuery::Collect is given the same
\* projection, in the same order, and the same predicates, in the same
\* order, as the first; and a Collect() that returns has fetched through the
\* second pass's reader the selected columns only, in selection order.
C27_SecondPassSame ==
  /\ CallsOn("reader") # <<>> =>
       /\ PushedColumns(CallsOn("reader")) = PushedColumns(CallsOn("query"))
       /\ PushedFilters(CallsOn("reader")) = PushedFilters(CallsOn("query"))
  /\ q_result.status = "ok" =>
       /\ CallsOn("reader") # <<>>
       /\ FetchedColumns = SelectedRegistered

\* the name column was selected and filtered on the id column: both passes
\* scanned name and id, only the name was decoded
C27_Witness ==
  /\ q_result.status = "ok"
  /\ select_names_ = <<"col_name">>
  /\ Len(filter_entries_) = 1 /\ filter_entries_[1].column = "col_id"
  /\ PushedColumns(CallsOn("reader")) = <<"col_name", "col_id">>
  /\ FetchedColumns = <<"col_name">>
  /\ Len(q_result.records) > 0
  /\ q_result.records[1].id = 0

\* C29: a Select or Filter call that fails with a lookup error leaves the
\* query as it was: no column name and no predicate has been appended.
C29_FailedCallLeavesQuery ==
  [][(/\ q_last'.status = "lookup_error"
      /\ <<select_names_, filter_entries_, q_last>>' #
           <<select_names_, filter_entries_, q_last>>)
     => (/\ select_names_' = select_names_
         /\ filter_entries_' = filter_entries_)]_vars

\* C30: after any registration calls the five lists of the codec have the
\* same length, and the legacy reader and the writer at index i are those of
\* the column named column_names()[i].
C30_ListsAligned ==
  /\ Len(codec.column_offsets_) = Len(codec.column_names_)
  /\ Len(codec.df_readers_) = Len(codec.column_names_)
  /\ Len(codec.column_readers_) = Len(codec.column_names_)
  /\ Len(codec.column_writers_) = Len(codec.column_names_)
  /\ \A i \in 1..Len(codec.column_names_) :
       /\ codec.column_readers_[i].name = codec.column_names_[i]
       /\ codec.column_writers_[i].name = codec.column_names_[i]

====
